---- MODULE Spec2Model ----
(***************************************************************************)
(* Model of the SOMA visualizer core: the seed codec and the page handlers *)
(* that call it, the audio effects chain (setParams / update), the audio   *)
(* analyzer (analyze), the oscillator engine with the canvas loop that     *)
(* drives it, the render shader's energy layer, the perceptual mapping,    *)
(* and the TrackPlayer and WebGLCanvas components' effects and loops.      *)
(*                                                                         *)
(* JavaScript numbers are modelled as exact rationals <<n, d>> (d > 0,     *)
(* lowest terms); strings are modelled as sequences of one-character       *)
(* strings.                                                                *)
(***************************************************************************)
EXTENDS Integers, Sequences, FiniteSets, TLC

VARIABLES
    \* ---- Visualizer page (React state) ----
    mounted,        \* the mount effect has run
    params,         \* useState<VisualizerParams>
    audioParams,    \* useState<AudioEffectParams>
    seed,           \* useState<string> seed
    seedInput,      \* useState<string> seedInput
    lastToast,      \* title of the last toast shown
    moves,          \* slider moves made so far (bounded)
    \* ---- AudioEffectsChain ----
    variant,        \* which of the two variants of audio-effects-chain.ts is built
    callerParams,   \* the AudioEffectParams object held by the caller
    targetRef,      \* the object this.targetParams refers to: "own" or "caller"
    targetOwn,      \* fields of the object the chain allocated for targetParams
    currentParams,  \* this.currentParams
    debugValues,    \* this._debugValues
    nodes,          \* last value scheduled (or initially assigned) on each AudioParam
    updates,        \* update() calls so far (bounded)
    lastOp,         \* the chain operation that ran last
    inRange,        \* every target ever set had all components in [0,1]
    \* ---- AudioAnalyzer ----
    analyser,       \* this.analyser: Null, or the node attached (its frequencyBinCount)
    analyzer,       \* the private fields of the AudioAnalyzer
    now,            \* performance.now(), in milliseconds
    audioData,      \* the AudioData the last analyze() returned (Null before the first)
    beatLog,        \* the clock readings of the frames that reported a beat
    frameCount,     \* analyze() calls so far: idle, silent and loud (bounded)
    \* ---- OscillatorEngine and the WebGLCanvas that drives it ----
    engine,         \* the engine's fields, with the GL objects it holds and what its
                    \* textures contain; twin: the state textures of a second engine
                    \* that is given the same seed and the same calls
    lastTimeRef,    \* WebGLCanvas: lastTimeRef.current
    \* ---- render shader and the perceptual mapping ----
    frag,           \* renderShader main: the uniforms of the last draw and the
                    \* base, energy and effective strength it computed per effect
    zones,          \* mapToPerceptualZone: the last two inputs mapped, with the
                    \* results of the library function and of the engine's copy
    \* ---- TrackPlayer ----
    canvasLoop,     \* WebGLCanvas: the engines its init effect created, the init
                    \* promises whose continuation has not run yet, animationRef and
                    \* the animation frames requested and not yet run or cancelled
    player          \* the component's state and refs, the effects chain it created
                    \* (its oscillators and the update() calls made on it), the
                    \* animation frames requested and not yet run or cancelled,
                    \* and the calls its cleanup made, in order

pageVars  == <<mounted, params, audioParams, seed, seedInput, lastToast, moves>>
chainVars == <<variant, callerParams, targetRef, targetOwn, currentParams,
               debugValues, nodes, updates, lastOp, inRange>>
analyzerVars == <<analyser, analyzer, now, audioData, beatLog, frameCount>>
engineVars == <<engine, lastTimeRef>>
restVars  == <<frag, zones, player, canvasLoop>>
vars      == <<pageVars, chainVars, analyzerVars, engineVars, restVars>>
notPage     == <<chainVars, analyzerVars, engineVars, restVars>>
notChain    == <<pageVars, analyzerVars, engineVars, restVars>>
notAnalyzer == <<pageVars, chainVars, engineVars, restVars>>
notEngine   == <<pageVars, chainVars, restVars>>
notRest     == <<pageVars, chainVars, analyzerVars, engineVars>>

-----------------------------------------------------------------------------
(* Bounds of the model *)

MaxMoves == 1
MaxUpdates == 3
MaxHoldUpdates == 4
MaxSweepUpdates == 1
SweepSteps == 20

-----------------------------------------------------------------------------
(* Exact rational arithmetic standing for JavaScript number arithmetic *)

Abs(x) == IF x < 0 THEN -x ELSE x

RECURSIVE GCD(_, _)
GCD(a, b) == IF b = 0 THEN a ELSE GCD(b, a % b)

RNorm(n, d) ==
    IF n = 0 THEN <<0, 1>>
    ELSE LET g == GCD(Abs(n), d) IN <<n \div g, d \div g>>

R(n, d) == RNorm(n, d)
RInt(n) == <<n, 1>>

RNeg(a) == <<-a[1], a[2]>>

RAdd(a, b) ==
    LET g == GCD(a[2], b[2])
    IN RNorm(a[1] * (b[2] \div g) + b[1] * (a[2] \div g), (a[2] \div g) * b[2])

RSub(a, b) == RAdd(a, RNeg(b))

RMul(a, b) ==
    IF a[1] = 0 \/ b[1] = 0 THEN <<0, 1>>
    ELSE LET g1 == GCD(Abs(a[1]), b[2])
             g2 == GCD(Abs(b[1]), a[2])
         IN <<(a[1] \div g1) * (b[1] \div g2), (a[2] \div g2) * (b[2] \div g1)>>

RInv(a) == IF a[1] > 0 THEN <<a[2], a[1]>> ELSE <<-a[2], -a[1]>>

RDiv(a, b) == RMul(a, RInv(b))

RLt(a, b) ==
    LET g == GCD(a[2], b[2])
    IN a[1] * (b[2] \div g) < b[1] * (a[2] \div g)

RLe(a, b) == ~RLt(b, a)

RMin(a, b) == IF RLt(b, a) THEN b ELSE a
RMax(a, b) == IF RLt(a, b) THEN b ELSE a
RAbs(a) == <<Abs(a[1]), a[2]>>

\* Math.floor on a rational
RFloor(a) == a[1] \div a[2]

\* Math.round: the nearest integer, ties toward +Infinity
MathRound(a) == RFloor(RAdd(a, <<1, 2>>))

IntMin(a, b) == IF a < b THEN a ELSE b
IntMax(a, b) == IF a > b THEN a ELSE b

InUnit(a) == RLe(<<0, 1>>, a) /\ RLe(a, <<1, 1>>)

-----------------------------------------------------------------------------
(* Strings *)

HexLower == <<"0","1","2","3","4","5","6","7","8","9","a","b","c","d","e","f">>
HexUpper == <<"0","1","2","3","4","5","6","7","8","9","A","B","C","D","E","F">>

\* "ff" stands for the single character U+FB00 (LATIN SMALL LIGATURE FF)
Ligature == "ff"
WhiteSpace == {" ", "\t"}

Str3(a, b, c) == <<a, b, c>>
PrefixSR == Str3("S", "R", "-")

RECURSIVE Concat(_)
Concat(ss) == IF ss = <<>> THEN <<>> ELSE Head(ss) \o Concat(Tail(ss))

\* String.prototype.toUpperCase, character by character; the ligature
\* upper-cases to the two characters "FF"
UpperOfChar(c) ==
    CASE c = "a" -> <<"A">> [] c = "b" -> <<"B">> [] c = "c" -> <<"C">>
      [] c = "d" -> <<"D">> [] c = "e" -> <<"E">> [] c = "f" -> <<"F">>
      [] c = "g" -> <<"G">> [] c = "s" -> <<"S">> [] c = "r" -> <<"R">>
      [] c = Ligature -> <<"F", "F">>
      [] OTHER -> <<c>>

toUpperCase(s) == Concat([i \in 1..Len(s) |-> UpperOfChar(s[i])])

\* String.prototype.trim
RECURSIVE TrimStart(_)
TrimStart(s) ==
    IF s # <<>> /\ Head(s) \in WhiteSpace THEN TrimStart(Tail(s)) ELSE s

RECURSIVE TrimEnd(_)
TrimEnd(s) ==
    IF s # <<>> /\ s[Len(s)] \in WhiteSpace
    THEN TrimEnd(SubSeq(s, 1, Len(s) - 1)) ELSE s

trim(s) == TrimEnd(TrimStart(s))

startsWith(s, p) == Len(s) >= Len(p) /\ SubSeq(s, 1, Len(p)) = p

\* s.slice(k): the string from (0-based) index k on
slice(s, k) == SubSeq(s, k + 1, Len(s))

\* Number.prototype.toString(16) of an integer 0..255
toString16(b) ==
    IF b < 16 THEN <<HexLower[b + 1]>>
    ELSE <<HexLower[(b \div 16) + 1], HexLower[(b % 16) + 1]>>

\* not the program's: the byte is not padded to two digits
padStart2_None(s) == s

\* String.prototype.padStart(2, '0')
padStart2(s) == IF Len(s) = 0 THEN <<"0", "0">>
                ELSE IF Len(s) = 1 THEN <<"0">> \o s ELSE s

HexDigitSet == {HexUpper[i] : i \in 1..16}

\* /^[0-9A-F]{18}$/.test(s)
Hex18Test(s) == Len(s) = 18 /\ \A i \in 1..18 : s[i] \in HexDigitSet

HexDigitValue(c) == CHOOSE v \in 0..15 : HexUpper[v + 1] = c

\* parseInt(two hex characters, 16)
parseInt16(s) == 16 * HexDigitValue(s[1]) + HexDigitValue(s[2])

-----------------------------------------------------------------------------
(* Parameter schema and defaults *)

VisualKeys == <<"dose", "symmetry", "recursion", "breathing", "flow", "saturation">>
AudioKeys  == <<"echo", "drift", "break_">>

DEFAULT_PARAMS ==
    [dose |-> R(3, 10), symmetry |-> R(2, 10), recursion |-> R(15, 100),
     breathing |-> R(4, 10), flow |-> R(3, 10), saturation |-> R(5, 10)]

DEFAULT_AUDIO_PARAMS ==
    [echo |-> R(2, 10), drift |-> R(1, 10), break_ |-> R(0, 1)]

-----------------------------------------------------------------------------
(* Seed codec *)

Null == [null |-> TRUE]
IsNull(r) == "null" \in DOMAIN r

\* bytes.push(Math.round(value * 255))
QuantizeByte(v) == MathRound(RMul(v, RInt(255)))

\* Math.min(255, Math.max(0, b)).toString(16).padStart(2, '0')
ByteToHex(b) == padStart2(toString16(IntMin(255, IntMax(0, b))))

encodeSeed(p, a) ==
    LET bytes == <<QuantizeByte(p.dose), QuantizeByte(p.symmetry),
                   QuantizeByte(p.recursion), QuantizeByte(p.breathing),
                   QuantizeByte(p.flow), QuantizeByte(p.saturation),
                   QuantizeByte(a.echo), QuantizeByte(a.drift),
                   QuantizeByte(a.break_)>>
        hex == toUpperCase(Concat([i \in 1..9 |-> ByteToHex(bytes[i])]))
    IN PrefixSR \o hex

\* bytes.push(parseInt(s.slice(i, i + 2), 16)) for i = 0, 2, .., 16
ParseBytes(s) == [i \in 1..9 |-> parseInt16(SubSeq(s, 2 * i - 1, 2 * i))]

\* not the program's: bytes 0 and 1 read into each other's field
DecodeFields_Swapped(bytes) ==
    [params |-> [dose |-> R(bytes[2], 255), symmetry |-> R(bytes[1], 255),
                 recursion |-> R(bytes[3], 255), breathing |-> R(bytes[4], 255),
                 flow |-> R(bytes[5], 255), saturation |-> R(bytes[6], 255)],
     audioParams |-> [echo |-> R(bytes[7], 255), drift |-> R(bytes[8], 255),
                      break_ |-> R(bytes[9], 255)]]

\* the two records built from the parsed bytes
DecodeFields(bytes) ==
    [params |-> [dose |-> R(bytes[1], 255), symmetry |-> R(bytes[2], 255),
                 recursion |-> R(bytes[3], 255), breathing |-> R(bytes[4], 255),
                 flow |-> R(bytes[5], 255), saturation |-> R(bytes[6], 255)],
     audioParams |-> [echo |-> R(bytes[7], 255), drift |-> R(bytes[8], 255),
                      break_ |-> R(bytes[9], 255)]]

\* not the program's: every leading "SR-" is dropped, not only one
RECURSIVE StripAllPrefixes(_)
StripAllPrefixes(s) ==
    IF startsWith(s, PrefixSR) THEN StripAllPrefixes(slice(s, 3)) ELSE s

decodeSeed_StripAll(seedStr) ==
    IF seedStr = <<>> THEN Null
    ELSE LET s == StripAllPrefixes(toUpperCase(trim(seedStr)))
         IN IF ~Hex18Test(s) THEN Null ELSE DecodeFields(ParseBytes(s))

decodeSeed(seedStr) ==
    IF seedStr = <<>> THEN Null
    ELSE LET s0 == toUpperCase(trim(seedStr))
             s == IF startsWith(s0, PrefixSR) THEN slice(s0, 3) ELSE s0
         IN IF ~Hex18Test(s) THEN Null ELSE DecodeFields(ParseBytes(s))

\* not the program's: the input is not trimmed
isValidSeed_NoTrim(seedStr) ==
    IF seedStr = <<>> THEN FALSE
    ELSE LET s0 == toUpperCase(seedStr)
             s == IF startsWith(s0, PrefixSR) THEN slice(s0, 3) ELSE s0
         IN Hex18Test(s)

isValidSeed(seedStr) ==
    IF seedStr = <<>> THEN FALSE
    ELSE LET s0 == toUpperCase(trim(seedStr))
             s == IF startsWith(s0, PrefixSR) THEN slice(s0, 3) ELSE s0
         IN Hex18Test(s)

-----------------------------------------------------------------------------
(* Inputs of the page: slider positions and typed seed strings *)

\* slider positions (min 0, max 1, step 0.01) the model moves a slider to
SliderStops == {R(1, 100), R(1, 2), R(1, 1)}

ZeroBody == [i \in 1..18 |-> "0"]
OnesBody == [i \in 1..18 |-> "F"]
\* the seed of the default parameters, typed in lower case
DefaultBodyLower ==
    <<"4","d","3","3","2","6","6","6","4","d","8","0","3","3","1","a","0","0">>

\* a body as typed: intact, or with one defect
Defects(b) ==
    { b,
      SubSeq(b, 1, 17),
      b \o <<"0">>,
      [b EXCEPT ![9] = "G"],
      [b EXCEPT ![9] = " "] }

TypedBodies == {ZeroBody, OnesBody} \cup Defects(DefaultBodyLower)

TypedPrefixes == { <<>>, PrefixSR, Str3("s", "r", "-"), PrefixSR \o PrefixSR }

\* white space typed or pasted around a seed: <<leading, trailing>>
TypedPads == { <<<<>>, <<>>>>, <<<<" ">>, <<>>>>, <<<<>>, <<"\t">>>>, <<<<" ">>, <<" ">>>> }

\* seeds pasted into the input while the sliders are being exercised
PastedSeeds == { PrefixSR \o OnesBody, ZeroBody }

\* a seed whose last two digits are typed as the one-character ligature
LigatureSeed == PrefixSR \o SubSeq(DefaultBodyLower, 1, 16) \o <<Ligature>>

InputStrings ==
    { <<>>, <<" ">>, PrefixSR, LigatureSeed } \cup
    { pad[1] \o pre \o body \o pad[2] :
        pad \in TypedPads, pre \in TypedPrefixes, body \in TypedBodies }

-----------------------------------------------------------------------------
(* Visualizer page *)

PageInit ==
    /\ mounted = FALSE
    /\ params = DEFAULT_PARAMS
    /\ audioParams = DEFAULT_AUDIO_PARAMS
    /\ seed = <<>>
    /\ seedInput = <<>>
    /\ lastToast = "none"
    /\ moves = 0

\* useEffect(() => { ... }, []): initial seed from the default params
MountEffect ==
    /\ ~mounted
    /\ mounted' = TRUE
    /\ LET initialSeed == encodeSeed(DEFAULT_PARAMS, DEFAULT_AUDIO_PARAMS)
       IN seed' = initialSeed /\ seedInput' = initialSeed
    /\ UNCHANGED <<params, audioParams, lastToast, moves>>

updateParam(key, value) ==
    /\ mounted
    /\ moves < MaxMoves
    /\ params' = [params EXCEPT ![key] = value]
    /\ moves' = moves + 1
    /\ UNCHANGED <<mounted, audioParams, seed, seedInput, lastToast>>

updateAudioParam(key, value) ==
    /\ mounted
    /\ moves < MaxMoves
    /\ audioParams' = [audioParams EXCEPT ![key] = value]
    /\ moves' = moves + 1
    /\ UNCHANGED <<mounted, params, seed, seedInput, lastToast>>

setSeedInput(value) ==
    /\ mounted
    /\ seedInput' = value
    /\ UNCHANGED <<mounted, params, audioParams, seed, lastToast, moves>>

handleReset ==
    /\ mounted
    /\ params' = DEFAULT_PARAMS
    /\ audioParams' = DEFAULT_AUDIO_PARAMS
    /\ LET newSeed == encodeSeed(DEFAULT_PARAMS, DEFAULT_AUDIO_PARAMS)
       IN seed' = newSeed /\ seedInput' = newSeed
    /\ lastToast' = "Reset complete"
    /\ UNCHANGED <<mounted, moves>>

handleGenerateSeed ==
    /\ mounted
    /\ LET newSeed == encodeSeed(params, audioParams)
       IN seed' = newSeed /\ seedInput' = newSeed
    /\ lastToast' = "Seed generated"
    /\ UNCHANGED <<mounted, params, audioParams, moves>>

\* a Load that stores the typed text as the session seed whatever decodeSeed
\* returns (not the program's)
handleLoadSeed_StoreAnyway ==
    /\ mounted
    /\ LET decoded == decodeSeed(seedInput)
       IN /\ seed' = IF startsWith(toUpperCase(seedInput), PrefixSR)
                     THEN toUpperCase(seedInput)
                     ELSE PrefixSR \o toUpperCase(seedInput)
          /\ IF ~IsNull(decoded)
             THEN /\ params' = decoded.params
                  /\ audioParams' = decoded.audioParams
                  /\ lastToast' = "Seed loaded"
             ELSE /\ lastToast' = "Invalid seed"
                  /\ UNCHANGED <<params, audioParams>>
    /\ UNCHANGED <<mounted, seedInput, moves>>

handleLoadSeed ==
    /\ mounted
    /\ LET decoded == decodeSeed(seedInput)
       IN IF ~IsNull(decoded)
          THEN /\ params' = decoded.params
               /\ audioParams' = decoded.audioParams
               /\ seed' = IF startsWith(toUpperCase(seedInput), PrefixSR)
                          THEN toUpperCase(seedInput)
                          ELSE PrefixSR \o toUpperCase(seedInput)
               /\ lastToast' = "Seed loaded"
          ELSE /\ lastToast' = "Invalid seed"
               /\ UNCHANGED <<params, audioParams, seed>>
    /\ UNCHANGED <<mounted, seedInput, moves>>

-----------------------------------------------------------------------------
(* AudioEffectsChain: the control-to-node mappings computed by update() *)

\* const smoothing = 0.05
\* a smoothing factor of 10% (not the program's)
smoothing_Tenth == R(1, 10)

smoothing == R(5, 100)

\* a step that moves away from the target (not the program's)
Smooth_Away(cur, tgt) == RSub(cur, RMul(RSub(tgt, cur), R(5, 100)))

\* current += (target - current) * smoothing
Smooth(cur, tgt) == RAdd(cur, RMul(RSub(tgt, cur), smoothing))

\* === ECHO MAPPING === (the same in both variants)
delayWet(echo) ==
    IF RLt(echo, R(3, 10))
    THEN RMul(RDiv(echo, R(3, 10)), R(15, 100))
    ELSE IF RLt(echo, R(7, 10))
         THEN RAdd(R(15, 100), RMul(RDiv(RSub(echo, R(3, 10)), R(4, 10)), R(35, 100)))
         ELSE RAdd(R(5, 10), RMul(RDiv(RSub(echo, R(7, 10)), R(3, 10)), R(3, 10)))

\* the feedback mapping without its Math.min (not the program's)
feedback_NoClamp(echo) == RMul(echo, R(6, 10))

\* const feedback = Math.min(0.6, echo * 0.6)
feedback(echo) == RMin(R(6, 10), RMul(echo, R(6, 10)))

\* const delayTime = 0.15 + echo * 0.35
delayTime(echo) == RAdd(R(15, 100), RMul(echo, R(35, 100)))

\* === DRIFT MAPPING, first variant ===
minFreqA == 2000

\* the first variant's cutoff without the Math.max of its last segment
\* and with that segment's slope doubled (not the program's)
baseFreqA_NoFloor(drift) ==
    IF RLt(drift, R(3, 10))
    THEN RSub(RInt(18000), RMul(RDiv(drift, R(3, 10)), RInt(8000)))
    ELSE IF RLt(drift, R(7, 10))
         THEN RSub(RInt(10000), RMul(RDiv(RSub(drift, R(3, 10)), R(4, 10)), RInt(6000)))
         ELSE RSub(RInt(4000), RMul(RDiv(RSub(drift, R(7, 10)), R(3, 10)), RInt(4000)))

baseFreqA(drift) ==
    IF RLt(drift, R(3, 10))
    THEN RSub(RInt(18000), RMul(RDiv(drift, R(3, 10)), RInt(8000)))
    ELSE IF RLt(drift, R(7, 10))
         THEN RSub(RInt(10000), RMul(RDiv(RSub(drift, R(3, 10)), R(4, 10)), RInt(6000)))
         ELSE RMax(RInt(minFreqA),
                   RSub(RInt(4000), RMul(RDiv(RSub(drift, R(7, 10)), R(3, 10)), RInt(2000))))

lfoDepthA(drift) ==
    IF RLt(drift, R(3, 10))
    THEN RMul(RDiv(drift, R(3, 10)), RInt(3000))
    ELSE IF RLt(drift, R(7, 10))
         THEN RAdd(RInt(3000), RMul(RDiv(RSub(drift, R(3, 10)), R(4, 10)), RInt(3000)))
         ELSE RAdd(RInt(6000), RMul(RDiv(RSub(drift, R(7, 10)), R(3, 10)), RInt(2000)))

filterQA(drift) == RAdd(RInt(2), RMul(drift, RInt(8)))

lfoSpeedA(drift) == RAdd(R(3, 10), RMul(drift, RInt(2)))

\* === DRIFT MAPPING, later variant ===
minFreqB == 2500

baseFreqB(drift) ==
    IF RLt(drift, R(3, 10))
    THEN RSub(RInt(18000), RMul(RDiv(drift, R(3, 10)), RInt(6000)))
    ELSE IF RLt(drift, R(7, 10))
         THEN RSub(RInt(12000), RMul(RDiv(RSub(drift, R(3, 10)), R(4, 10)), RInt(6000)))
         ELSE RMax(RInt(minFreqB),
                   RSub(RInt(6000), RMul(RDiv(RSub(drift, R(7, 10)), R(3, 10)), RInt(3500))))

lfoDepthB(drift) ==
    IF RLt(drift, R(3, 10))
    THEN RMul(RDiv(drift, R(3, 10)), RInt(2000))
    ELSE IF RLt(drift, R(7, 10))
         THEN RAdd(RInt(2000), RMul(RDiv(RSub(drift, R(3, 10)), R(4, 10)), RInt(2500)))
         ELSE RAdd(RInt(4500), RMul(RDiv(RSub(drift, R(7, 10)), R(3, 10)), RInt(1500)))

filterQB(drift) == RAdd(R(15, 10), RMul(drift, RInt(4)))

lfoSpeedB(drift) == RAdd(R(25, 100), RMul(drift, R(125, 100)))

\* === BREAK MAPPING, first variant ===
gateMinA(brk) ==
    IF RLt(brk, R(4, 10))
    THEN RSub(RInt(1), RMul(RDiv(RSub(brk, R(15, 100)), R(25, 100)), R(4, 10)))
    ELSE IF RLt(brk, R(7, 10))
         THEN RSub(R(6, 10), RMul(RDiv(RSub(brk, R(4, 10)), R(3, 10)), R(3, 10)))
         ELSE RSub(R(3, 10), RMul(RDiv(RSub(brk, R(7, 10)), R(3, 10)), R(2, 10)))

gateRateA(brk) ==
    IF RLt(brk, R(4, 10))
    THEN RAdd(R(3, 10), RMul(RSub(brk, R(15, 100)), RInt(2)))
    ELSE IF RLt(brk, R(7, 10))
         THEN RAdd(R(8, 10), RMul(RSub(brk, R(4, 10)), RInt(5)))
         ELSE RAdd(R(23, 10), RMul(RSub(brk, R(7, 10)), RInt(8)))

\* the first variant's break mapping without its "off" branch (not the program's)
breakGateA_NoBypass(brk) ==
    [gateDepth |-> RSub(RInt(1), gateMinA(brk)), gateRate |-> gateRateA(brk),
     gateMin |-> gateMinA(brk), gateMax |-> RInt(1)]

breakGateA(brk) ==
    IF RLt(brk, R(15, 100))
    THEN [gateDepth |-> RInt(0), gateRate |-> R(5, 10),
          gateMin |-> RInt(1), gateMax |-> RInt(1)]
    ELSE [gateDepth |-> RSub(RInt(1), gateMinA(brk)), gateRate |-> gateRateA(brk),
          gateMin |-> gateMinA(brk), gateMax |-> RInt(1)]

\* === BREAK MAPPING, later variant ===
gateMinB(brk) ==
    IF RLt(brk, R(25, 100))
    THEN RSub(RInt(1), RMul(RDiv(RSub(brk, R(5, 100)), R(2, 10)), R(3, 10)))
    ELSE IF RLt(brk, R(5, 10))
         THEN RSub(R(7, 10), RMul(RDiv(RSub(brk, R(25, 100)), R(25, 100)), R(25, 100)))
         ELSE IF RLt(brk, R(75, 100))
              THEN RSub(R(45, 100), RMul(RDiv(RSub(brk, R(5, 10)), R(25, 100)), R(2, 10)))
              ELSE RSub(R(25, 100), RMul(RDiv(RSub(brk, R(75, 100)), R(25, 100)), R(15, 100)))

gateRateB(brk) ==
    IF RLt(brk, R(25, 100))
    THEN RAdd(R(2, 10), RMul(RSub(brk, R(5, 100)), RInt(2)))
    ELSE IF RLt(brk, R(5, 10))
         THEN RAdd(R(6, 10), RMul(RSub(brk, R(25, 100)), RInt(4)))
         ELSE IF RLt(brk, R(75, 100))
              THEN RAdd(R(16, 10), RMul(RSub(brk, R(5, 10)), RInt(6)))
              ELSE RAdd(R(31, 10), RMul(RSub(brk, R(75, 100)), RInt(8)))

breakGateB(brk) ==
    IF RLt(brk, R(5, 100))
    THEN [gateDepth |-> RInt(0), gateRate |-> R(5, 10),
          gateMin |-> RInt(1), gateMax |-> RInt(1)]
    ELSE [gateDepth |-> RSub(RInt(1), gateMinB(brk)), gateRate |-> gateRateB(brk),
          gateMin |-> gateMinB(brk), gateMax |-> RInt(1)]

\* const lfoScale = gateDepth * 0.7
lfoScale(gateDepth) == RMul(gateDepth, R(7, 10))

\* const gateCenter = gateMin + gateDepth * 0.5
gateCenter(gateMin, gateDepth) == RAdd(gateMin, RMul(gateDepth, R(5, 10)))

\* === BREAK SHAPER CURVE === (the same in both variants)
samples == 256

\* the curve samples the model looks at: both ends, the middle, the quarters
CurveSamples == {0, 64, 127, 128, 191, 255}

\* const x = (i / (samples - 1)) * 2 - 1
CurveX(i) == RSub(RMul(R(i, samples - 1), RInt(2)), RInt(1))

\* Math.tanh(x * 2) at the sample i, to three decimals
TanhOf2x(i) ==
    CASE i = 0   -> R(-964, 1000)
      [] i = 64  -> R(-760, 1000)
      [] i = 127 -> R(-8, 1000)
      [] i = 128 -> R(8, 1000)
      [] i = 191 -> R(760, 1000)
      [] i = 255 -> R(964, 1000)

\* a shaper that passes the LFO through unshaped (not the program's)
createBreakCurve_Linear == [i \in CurveSamples |-> CurveX(i)]

\* curve[i] = 0.65 + Math.tanh(x * 2) * 0.35
createBreakCurve ==
    [i \in CurveSamples |-> RAdd(R(65, 100), RMul(TanhOf2x(i), R(35, 100)))]

\* the value of gateGain.gain while the shaped LFO sits on curve sample i:
\* the scheduled gain plus the breakLfoGain output connected to it
GateGainAt(i) == RAdd(nodes.gateGain, RMul(nodes.breakLfoGain, createBreakCurve[i]))

\* the mapping of the variant that is built
minFreq    == IF variant = 1 THEN minFreqA ELSE minFreqB
baseFreq(drift)  == IF variant = 1 THEN baseFreqA(drift) ELSE baseFreqB(drift)
lfoDepth(drift)  == IF variant = 1 THEN lfoDepthA(drift) ELSE lfoDepthB(drift)
filterQ(drift)   == IF variant = 1 THEN filterQA(drift) ELSE filterQB(drift)
lfoSpeed(drift)  == IF variant = 1 THEN lfoSpeedA(drift) ELSE lfoSpeedB(drift)
breakGate(brk)   == IF variant = 1 THEN breakGateA(brk) ELSE breakGateB(brk)

-----------------------------------------------------------------------------
(* AudioEffectsChain: state and operations *)

\* the object this.targetParams refers to
targetParams == IF targetRef = "own" THEN targetOwn ELSE callerParams

ChainInit ==
    /\ variant \in {1, 2}
    /\ callerParams = DEFAULT_AUDIO_PARAMS
    /\ targetRef = "own"
    /\ targetOwn = DEFAULT_AUDIO_PARAMS
    /\ currentParams = DEFAULT_AUDIO_PARAMS
    /\ debugValues =
         [echo |-> [wet |-> RInt(0), feedback |-> RInt(0), delayTime |-> RInt(0)],
          drift |-> [baseFreq |-> RInt(20000), lfoDepth |-> RInt(0),
                     filterQ |-> RInt(1), lfoSpeed |-> R(1, 10)],
          break_ |-> [gateDepth |-> RInt(0), gateRate |-> RInt(0), gateMin |-> RInt(1),
                      gateMax |-> RInt(1), gateCenter |-> RInt(1)]]
    /\ nodes =
         [delayTime |-> R(25, 100), feedbackGain |-> R(3, 10),
          delayWetGain |-> RInt(0), delayDryGain |-> RInt(1),
          filterFrequency |-> RInt(20000), filterQ |-> RInt(1),
          filterLfoFrequency |-> R(15, 100), filterLfoGain |-> RInt(0),
          gateGain |-> RInt(1), breakLfoFrequency |-> RInt(2),
          breakLfoGain |-> RInt(0)]
    /\ updates = 0
    /\ lastOp = "constructor"
    /\ inRange = TRUE

AllInUnit(p) == InUnit(p.echo) /\ InUnit(p.drift) /\ InUnit(p.break_)

\* setParams storing the caller's object itself (not the program's)
setParams_Alias(p) ==
    /\ callerParams' = p
    /\ targetRef' = "caller"
    /\ lastOp' = "setParams"
    /\ inRange' = (inRange /\ AllInUnit(p))
    /\ UNCHANGED <<variant, targetOwn, currentParams, debugValues, nodes, updates>>

\* setParams(params) { this.targetParams = { ...params } }, called with the
\* caller's object holding the values p
setParams(p) ==
    /\ callerParams' = p
    /\ targetOwn' = p
    /\ targetRef' = "own"
    /\ lastOp' = "setParams"
    /\ inRange' = (inRange /\ AllInUnit(p))
    /\ UNCHANGED <<variant, currentParams, debugValues, nodes, updates>>

\* the caller writes new values into the object it passed to setParams
callerMutate(p) ==
    /\ callerParams' = p
    /\ lastOp' = "callerMutate"
    /\ inRange' = (inRange /\ (targetRef = "own" \/ AllInUnit(p)))
    /\ UNCHANGED <<variant, targetRef, targetOwn, currentParams, debugValues,
                   nodes, updates>>

update ==
    LET cur == [echo   |-> Smooth(currentParams.echo, targetParams.echo),
                drift  |-> Smooth(currentParams.drift, targetParams.drift),
                break_ |-> Smooth(currentParams.break_, targetParams.break_)]
        wet  == delayWet(cur.echo)
        fb   == feedback(cur.echo)
        dt   == delayTime(cur.echo)
        bf   == baseFreq(cur.drift)
        ld   == lfoDepth(cur.drift)
        fq   == filterQ(cur.drift)
        ls   == lfoSpeed(cur.drift)
        gate == breakGate(cur.break_)
        gc   == gateCenter(gate.gateMin, gate.gateDepth)
    IN /\ currentParams' = cur
       /\ nodes' = [delayWetGain |-> wet,
                    delayDryGain |-> RSub(RInt(1), RMul(wet, R(3, 10))),
                    feedbackGain |-> fb,
                    delayTime |-> dt,
                    filterFrequency |-> bf,
                    filterQ |-> fq,
                    filterLfoGain |-> ld,
                    filterLfoFrequency |-> ls,
                    breakLfoFrequency |-> gate.gateRate,
                    breakLfoGain |-> lfoScale(gate.gateDepth),
                    gateGain |-> gc]
       /\ debugValues' =
            [echo |-> [wet |-> wet, feedback |-> fb, delayTime |-> dt],
             drift |-> [baseFreq |-> bf, lfoDepth |-> ld, filterQ |-> fq, lfoSpeed |-> ls],
             break_ |-> [gateDepth |-> gate.gateDepth, gateRate |-> gate.gateRate,
                         gateMin |-> gate.gateMin, gateMax |-> gate.gateMax,
                         gateCenter |-> gc]]
       /\ updates' = updates + 1
       /\ lastOp' = "update"
       /\ UNCHANGED <<variant, callerParams, targetRef, targetOwn, inRange>>

-----------------------------------------------------------------------------
(* Inputs of the chain *)

Triple(v) == [echo |-> v, drift |-> v, break_ |-> v]

\* targets passed to setParams: in range, above range, below range
TargetChoices ==
    { Triple(RInt(0)), Triple(RInt(1)), Triple(RInt(20)), Triple(RInt(-1)),
      [echo |-> R(1, 2), drift |-> RInt(1), break_ |-> R(1, 4)] }

\* targets in [0,1] for the runs that hold the target fixed
HoldTargets ==
    { [echo |-> e, drift |-> d, break_ |-> b] :
        e \in {RInt(0), R(1, 2), RInt(1)},
        d \in {RInt(0), R(1, 2), RInt(1)},
        b \in {RInt(0), R(1, 2), RInt(1)} }

\* the sweep 0 -> 1 of the smoothed controls in SweepSteps steps
SweepGrid == { R(k, SweepSteps) : k \in 0..SweepSteps }

\* the target that takes a control from its default c0 to g in one update:
\* c0 + (t - c0) * 0.05 = g
SweepTargetFor(c0, g) == RAdd(c0, RMul(RSub(g, c0), RInt(20)))

SweepTargets ==
    { [echo   |-> SweepTargetFor(DEFAULT_AUDIO_PARAMS.echo, g),
       drift  |-> SweepTargetFor(DEFAULT_AUDIO_PARAMS.drift, g),
       break_ |-> SweepTargetFor(DEFAULT_AUDIO_PARAMS.break_, g)] : g \in SweepGrid }

-----------------------------------------------------------------------------
(* AudioAnalyzer (audio-analyzer.ts, the variant with adaptive beat detection) *)

MaxIdleFrames == 2
MaxSilentFrames == 4
MaxLoudFrames == 2
WarmupFrames == 44
MaxSpikeFrames == 4

historySize == 43
beatCooldown == 120

\* analyser.frequencyBinCount is fftSize / 2: AudioInput sets fftSize 256,
\* BottomPlayerBar and TrackPlayer set 1024
FrequencyBinCounts == {128, 512}

\* getByteFrequencyData: the byte every bin holds (the spectra fed are flat)
SpectrumBytes == {0, 51, 255}

\* milliseconds between two animation frames
FrameGaps == {16, 110, 130}

\* Math.sin(t * 0.5): the clock's phase is arbitrary, so the sine is drawn
\* from samples of [-1, 1]
SineSamples == {R(-1, 1), R(-1, 2), R(0, 1), R(1, 2), R(1, 1)}

RECURSIVE RSumRange(_, _, _)
RSumRange(s, lo, hi) ==
    IF lo > hi THEN <<0, 1>>
    ELSE IF lo = hi THEN s[lo]
    ELSE LET m == (lo + hi) \div 2
         IN RAdd(RSumRange(s, lo, m), RSumRange(s, m + 1, hi))

RSum(s) == RSumRange(s, 1, Len(s))

\* Math.sqrt, on the rationals that are squares of rationals (the RMS of a
\* flat spectrum)
Root(n) == CHOOSE k \in 0..255 : k * k = n
MathSqrt(a) == <<Root(a[1]), Root(a[2])>>

\* Math.exp(-x) for x >= 0, by the rational 1 / (1 + x + x^2/2), which like
\* the exponential is 1 at 0, decreasing and in (0, 1]
ExpNeg(x) == RInv(RAdd(RAdd(<<1, 1>>, x), RMul(RMul(x, x), R(1, 2))))

BandEnergyOfFlat(byte, startBin, endBin, binCount) ==
    LET val       == R(byte, 255)
        actualEnd == IntMin(endBin, binCount)
        summed    == IntMax(0, actualEnd - startBin)
        sum       == RMul(RInt(summed), RMul(val, val))
    IN MathSqrt(RDiv(sum, RInt(actualEnd - startBin)))

\* getBandEnergy over the dataArray just filled
getBandEnergy(byte, startBin, endBin) ==
    BandEnergyOfFlat(byte, startBin, endBin, analyser.frequencyBinCount)

asymmetricSmooth(current, target, attackRate, releaseRate) ==
    LET rate == IF RLt(current, target) THEN attackRate ELSE releaseRate
    IN RAdd(current, RMul(RSub(target, current), rate))

\* the flux taken against silence instead of the previous frame
SpectralFluxOfFlat_Level(byte, prevLevel, binCount) == RMul(R(byte, 255), RInt(10))

\* flux / dataArray.length * 10, the flux summing the increases of all bins
SpectralFluxOfFlat(byte, prevLevel, binCount) ==
    LET diff == RSub(R(byte, 255), prevLevel)
        flux == IF RLt(<<0, 1>>, diff) THEN RMul(RInt(binCount), diff) ELSE <<0, 1>>
    IN RMul(RDiv(flux, RInt(binCount)), RInt(10))

\* this.bass > this.adaptiveThreshold, the threshold being
\* avgEnergy + Math.sqrt(variance) * 1.5: bass - avgEnergy is positive and
\* its square exceeds 2.25 * variance
AboveAdaptiveThreshold(b, history) ==
    LET n         == RInt(Len(history))
        avgEnergy == RDiv(RSum(history), n)
        dev       == RSub(b, avgEnergy)
        variance  == RDiv(RSum([i \in 1..Len(history) |->
                                  RMul(RSub(history[i], avgEnergy),
                                       RSub(history[i], avgEnergy))]), n)
    IN RLt(<<0, 1>>, dev) /\ RLt(RMul(R(9, 4), variance), RMul(dev, dev))

CooldownElapsed_Always(timeSinceBeat) == TRUE

CooldownElapsed(timeSinceBeat) == timeSinceBeat > beatCooldown

AnalyzerFields ==
    [bass |-> <<0, 1>>, lowMid |-> <<0, 1>>, mid |-> <<0, 1>>, high |-> <<0, 1>>,
     energy |-> <<0, 1>>,
     prevBass |-> <<0, 1>>, prevLowMid |-> <<0, 1>>, prevMid |-> <<0, 1>>,
     prevHigh |-> <<0, 1>>, prevEnergy |-> <<0, 1>>,
     peakBass |-> <<0, 1>>, peakEnergy |-> <<0, 1>>,
     spectralFlux |-> <<0, 1>>,
     prevSpectrum |-> <<0, 1>>,     \* the level every entry of prevSpectrum holds
     energyHistory |-> <<>>,
     lastBeatTime |-> 0,
     \* Math.max(maxObservedEnergy, 0.1), the form line 236 reads the field in;
     \* Math.max(f * gainDecay, energy) floored at 0.1 is the same number
     \* whether f or Math.max(f, 0.1) is decayed
     maxObservedEnergy |-> R(1, 10)]

AnalyzerInit ==
    /\ analyser = Null
    /\ analyzer = AnalyzerFields
    /\ now = 0
    /\ audioData = Null
    /\ beatLog = <<>>
    /\ frameCount = [idle |-> 0, silent |-> 0, loud |-> 0]

setAnalyser(node) ==
    /\ analyser' = node
    /\ analyzer' = IF IsNull(node) THEN analyzer
                   ELSE [analyzer EXCEPT !.prevSpectrum = <<0, 1>>]
    /\ UNCHANGED <<now, audioData, beatLog, frameCount>>

getIdleAudioData(sine) ==
    LET breath == RAdd(RMul(sine, R(5, 100)), R(1, 10))
    IN [bass |-> breath, lowMid |-> RMul(breath, R(8, 10)),
        mid |-> RMul(breath, R(6, 10)), high |-> RMul(breath, R(3, 10)),
        energy |-> breath, beatDetected |-> FALSE, beatIntensity |-> <<0, 1>>]

\* the fields and the AudioData after analyze() has read a flat spectrum of
\* the given byte at clock reading t
AnalyzeSource(byte, t) ==
    LET a  == analyzer
        rawSubBass == getBandEnergy(byte, 1, 3)
        rawBass    == getBandEnergy(byte, 3, 8)
        rawLowMid  == getBandEnergy(byte, 8, 23)
        rawMid     == getBandEnergy(byte, 23, 93)
        rawHighMid == getBandEnergy(byte, 93, 186)
        rawHigh    == getBandEnergy(byte, 186, 372)
        combinedBass == RAdd(RMul(rawSubBass, R(6, 10)), RMul(rawBass, R(4, 10)))
        spectralFlux == SpectralFluxOfFlat(byte, a.prevSpectrum, analyser.frequencyBinCount)
        bass   == asymmetricSmooth(a.bass, combinedBass, R(6, 10), R(5, 100))
        lowMid == asymmetricSmooth(a.lowMid, rawLowMid, R(5, 10), R(8, 100))
        mid    == asymmetricSmooth(a.mid, rawMid, R(4, 10), R(1, 10))
        high   == asymmetricSmooth(a.high, RAdd(rawHigh, RMul(rawHighMid, R(5, 10))),
                                   R(3, 10), R(12, 100))
        rawEnergy == RAdd(RAdd(RMul(combinedBass, R(4, 10)), RMul(rawLowMid, R(25, 100))),
                          RAdd(RMul(rawMid, R(2, 10)), RMul(rawHigh, R(15, 100))))
        energy == asymmetricSmooth(a.energy, rawEnergy, R(5, 10), R(8, 100))
        maxObservedEnergy ==
            RMax(RMax(RMul(a.maxObservedEnergy, R(999, 1000)), energy), R(1, 10))
        normalizedEnergy == RDiv(energy, RMax(maxObservedEnergy, R(1, 10)))
        peakBass   == RMax(RMul(a.peakBass, R(92, 100)), bass)
        peakEnergy == RMax(RMul(a.peakEnergy, R(94, 100)), normalizedEnergy)
        pushed  == Append(a.energyHistory, bass)
        energyHistory == IF Len(pushed) > historySize THEN Tail(pushed) ELSE pushed
        timeSinceBeat == t - a.lastBeatTime
        \* the four conditions of lines 261-264; none has an effect, so the
        \* conjunction is the same in any order
        beatDetected ==
            /\ RLt(RMul(a.bass, R(12, 10)), bass)
            /\ RLt(R(1, 10), spectralFlux)
            /\ CooldownElapsed(timeSinceBeat)
            /\ AboveAdaptiveThreshold(bass, energyHistory)
        beatDecay == ExpNeg(R(timeSinceBeat, 150))
        beatIntensity == IF beatDetected THEN <<1, 1>> ELSE RMul(beatDecay, peakBass)
        bassVelocity == RMul(RMax(<<0, 1>>, RSub(bass, a.bass)), RInt(5))
    IN [fields |->
          [bass |-> bass, lowMid |-> lowMid, mid |-> mid, high |-> high,
           energy |-> energy,
           prevBass |-> a.bass, prevLowMid |-> a.lowMid, prevMid |-> a.mid,
           prevHigh |-> a.high, prevEnergy |-> a.energy,
           peakBass |-> peakBass, peakEnergy |-> peakEnergy,
           spectralFlux |-> spectralFlux,
           prevSpectrum |-> R(byte, 255),
           energyHistory |-> energyHistory,
           lastBeatTime |-> IF beatDetected THEN t ELSE a.lastBeatTime,
           maxObservedEnergy |-> maxObservedEnergy],
        data |->
          [bass |-> bass, lowMid |-> lowMid, mid |-> mid, high |-> high,
           energy |-> normalizedEnergy,
           beatDetected |-> beatDetected,
           beatIntensity |-> RMin(<<1, 1>>, RAdd(beatIntensity, RMul(bassVelocity, R(5, 10))))]]

\* analyze() called gap milliseconds after the previous frame, the analyser
\* node (when one is attached) delivering a flat spectrum of the given byte
analyze(byte, sine, gap) ==
    /\ now' = now + gap
    /\ IF IsNull(analyser)
       THEN /\ audioData' = getIdleAudioData(sine)
            /\ frameCount' = [frameCount EXCEPT !.idle = @ + 1]
            /\ UNCHANGED <<analyzer, beatLog>>
       ELSE LET r == AnalyzeSource(byte, now + gap)
            IN /\ analyzer' = r.fields
               /\ audioData' = r.data
               /\ beatLog' = IF r.data.beatDetected THEN Append(beatLog, now + gap)
                             ELSE beatLog
               /\ frameCount' = IF byte = 0
                                THEN [frameCount EXCEPT !.silent = @ + 1]
                                ELSE [frameCount EXCEPT !.loud = @ + 1]
    /\ UNCHANGED analyser

-----------------------------------------------------------------------------
(* OscillatorEngine (OscillatorEngine.ts, the perceptual engine) and the *)
(* WebGLCanvas animation loop                                             *)

MaxEngineUpdates == 2
MaxNoiseUpdates == 20
MaxImages == 2

\* String.prototype.charCodeAt, for the characters seeds are written in
charCodeAt(c) ==
    CASE c = "-" -> 45
      [] c = "0" -> 48 [] c = "1" -> 49 [] c = "2" -> 50 [] c = "3" -> 51
      [] c = "4" -> 52 [] c = "5" -> 53 [] c = "6" -> 54 [] c = "7" -> 55
      [] c = "8" -> 56 [] c = "9" -> 57
      [] c = "A" -> 65 [] c = "B" -> 66 [] c = "C" -> 67 [] c = "D" -> 68
      [] c = "E" -> 69 [] c = "F" -> 70 [] c = "R" -> 82 [] c = "S" -> 83
      [] c = "a" -> 97 [] c = "d" -> 100 [] c = "e" -> 101 [] c = "f" -> 102
      [] c = "l" -> 108 [] c = "t" -> 116 [] c = "u" -> 117

\* hash = ((hash << 5) - hash) + charCode; hash |= 0, on the 32-bit pattern
\* of hash kept as two 16-bit halves <<high, low>>
RECURSIVE HashFrom(_, _)
HashFrom(h, str) ==
    IF str = <<>> THEN h
    ELSE LET low  == h[2] * 31 + charCodeAt(Head(str))
             high == h[1] * 31 + low \div 65536
         IN HashFrom(<<high % 65536, low % 65536>>, Tail(str))

\* Math.abs(hash) of the signed 32-bit hash, as two 16-bit halves
stringToSeed(str) ==
    LET h == HashFrom(<<0, 0>>, str)
    IN IF h[1] >= 32768
       THEN <<65535 - h[1] + (IF h[2] = 0 THEN 1 ELSE 0), (65536 - h[2]) % 65536>>
       ELSE h

\* t * t * (3 - 2 * t)
Smoothstep(t) == RMul(RMul(t, t), RSub(RInt(3), RMul(RInt(2), t)))

\* the branch of mapToPerceptualZone an input takes
ZoneOf(linear) ==
    IF RLe(linear, R(4, 10)) THEN 1 ELSE IF RLe(linear, R(8, 10)) THEN 2 ELSE 3

\* the formula of branch z of the engine's mapToPerceptualZone
PerceptualZone(z, linear) ==
    CASE z = 1 -> RMul(Smoothstep(RDiv(linear, R(4, 10))), R(2, 10))
      [] z = 2 -> RAdd(R(2, 10),
                       RMul(Smoothstep(RDiv(RSub(linear, R(4, 10)), R(4, 10))), R(5, 10)))
      [] z = 3 -> RAdd(R(7, 10),
                       RMul(Smoothstep(RDiv(RSub(linear, R(8, 10)), R(2, 10))), R(3, 10)))

\* the expressive zone with a gain of 0.6 in place of 0.5
mapToPerceptualZone_Steep(linear) ==
    IF ZoneOf(linear) = 2
    THEN RAdd(R(2, 10),
              RMul(Smoothstep(RDiv(RSub(linear, R(4, 10)), R(4, 10))), R(6, 10)))
    ELSE PerceptualZone(ZoneOf(linear), linear)

mapToPerceptualZone(linear) == PerceptualZone(ZoneOf(linear), linear)

MappedParams(p) == [k \in DOMAIN p |-> mapToPerceptualZone(p[k])]

DefaultSeedString == <<"d", "e", "f", "a", "u", "l", "t">>
EngineSeeds == {DefaultSeedString, encodeSeed(DEFAULT_PARAMS, DEFAULT_AUDIO_PARAMS)}

\* Math.random(): the draws a call can return
RandomDraws == {R(1, 4), R(3, 4)}

\* ways init can go before it reaches the framebuffers
InitEnvironments == {"ok", "noContext", "noProgram", "noQuad"}

\* the framebuffer creations init can try, and which of them succeed
Attempts == {<<b, f>> : b \in {0, 1}, f \in {"RGBA32F", "RGBA16F", "RGBA8"}}
Outcomes == [Attempts -> BOOLEAN]

\* the deltaTime a caller may pass to update
DeltaTimes == {R(16, 1000), R(5, 1)}

InitialLastAudio ==
    [bass |-> R(1, 10), lowMid |-> R(1, 10), mid |-> R(1, 10), high |-> R(5, 100),
     energy |-> R(1, 10), beatDetected |-> FALSE, beatIntensity |-> <<0, 1>>]

\* the AudioData a caller may pass to update
EngineAudioFrames == {getIdleAudioData(<<1, 1>>)}

\* a state texture allocated with no data
BlankTexture == [field |-> "blank", steps |-> <<>>]

\* the field initializeState builds, its phases drawn by Math.random
InitialField(draw) == [field |-> draw, steps |-> <<>>]

\* new OscillatorEngine(seed): the field initializers and the constructor
NewEngine(seedString) ==
    [seed |-> seedString,
     PERM |-> stringToSeed(seedString),   \* the seed number initPerlin last shuffled by
     canvas |-> FALSE, gl |-> FALSE, initialized |-> FALSE,
     updateProgram |-> FALSE, renderProgram |-> FALSE, quad |-> FALSE,
     stateBuffers |-> <<Null, Null>>,     \* stateBuffers[0] and stateBuffers[1]
     currentBuffer |-> 0,
     noiseTexture |-> FALSE, noiseTime |-> <<0, 1>>,
     imageTexture |-> 0,                  \* 0 for null, else the n-th texture setImage made
     hasUserImage |-> FALSE,
     time |-> <<0, 1>>,
     lastAudio |-> InitialLastAudio, lastParams |-> DEFAULT_PARAMS,
     \* the GL context
     allocated |-> {},                    \* objects created and not deleted
     orphans |-> 0,                       \* textures of framebuffers found incomplete
     attempts |-> <<>>,                   \* framebuffer creations tried, in order
     released |-> <<>>,                   \* objects deleted, in order
     contents |-> <<BlankTexture, BlankTexture>>,
     storage |-> <<"none", "none">>,      \* internal format each state texture was
                                          \* last specified with (texImage2D)
     noise |-> Null,                      \* what the noise texture holds
     draw |-> Null,                       \* the last draw of the update kernel
     screen |-> Null,                     \* the last draw of the render program
     twin |-> <<BlankTexture, BlankTexture>>,
     error |-> "none",                    \* what the last call threw
     op |-> "new", updates |-> 0, images |-> 0]

EngineInit ==
    /\ engine = NewEngine(DefaultSeedString)
    /\ lastTimeRef = 0

BufferObjects(b) ==
    IF b = 0 THEN {"stateBuffers[0].framebuffer", "stateBuffers[0].texture"}
    ELSE {"stateBuffers[1].framebuffer", "stateBuffers[1].texture"}

\* the creations init makes for stateBuffers[0]: RGBA32F, then RGBA16F, then
\* createRGBA8Framebuffer
AttemptsForFirst(ok) ==
    <<[buffer |-> 0, format |-> "RGBA32F", ok |-> ok[<<0, "RGBA32F">>]]>>
    \o (IF ok[<<0, "RGBA32F">>] THEN <<>>
        ELSE <<[buffer |-> 0, format |-> "RGBA16F", ok |-> ok[<<0, "RGBA16F">>]]>>
             \o (IF ok[<<0, "RGBA16F">>] THEN <<>>
                 ELSE <<[buffer |-> 0, format |-> "RGBA8", ok |-> ok[<<0, "RGBA8">>]]>>))

\* the value of format when stateBuffers[1] is created
FormatAfterFirst(ok) == IF ok[<<0, "RGBA32F">>] THEN "RGBA32F" ELSE "RGBA16F"

\* the creations init makes for stateBuffers[1]: format, then
\* createRGBA8Framebuffer
AttemptsForSecond(ok) ==
    LET format == FormatAfterFirst(ok)
    IN <<[buffer |-> 1, format |-> format, ok |-> ok[<<1, format>>]]>>
       \o (IF ok[<<1, format>>] THEN <<>>
           ELSE <<[buffer |-> 1, format |-> "RGBA8", ok |-> ok[<<1, "RGBA8">>]]>>)

\* the Framebuffer a run of creations leaves: that of its last creation if
\* it succeeded, else null
BufferMade(tried) ==
    LET last == tried[Len(tried)]
    IN IF last.ok THEN [format |-> last.format] ELSE Null

FailedFloatCreations(tried) ==
    Cardinality({i \in 1..Len(tried) : ~tried[i].ok /\ tried[i].format # "RGBA8"})

\* initializeState: one field, uploaded to both state textures by
\* texImage2D(..., gl.RGBA32F, ..., gl.FLOAT, data), which specifies the
\* texture's storage anew
initializeState(e, draw, twinDraw) ==
    [e EXCEPT !.storage = [i \in 1..2 |-> IF IsNull(e.stateBuffers[i]) THEN e.storage[i]
                                        ELSE "RGBA32F"],
              !.contents = [i \in 1..2 |-> IF IsNull(e.stateBuffers[i]) THEN e.contents[i]
                                         ELSE InitialField(draw)],
              !.twin = [i \in 1..2 |-> IF IsNull(e.stateBuffers[i]) THEN e.twin[i]
                                     ELSE InitialField(twinDraw)]]

createNoiseTexture(e) ==
    [e EXCEPT !.noiseTexture = TRUE,
              !.allocated = @ \cup {"noiseTexture"},
              !.noise = [perm |-> e.PERM, time |-> <<0, 1>>]]

\* init(canvas), the Math.random draws of the engine and of its twin given
Inited(e, env, ok, draw, twinDraw) ==
    LET e0 == [e EXCEPT !.canvas = TRUE, !.op = "init"]
        e1 == [e0 EXCEPT !.gl = TRUE]
        e2 == [e1 EXCEPT !.updateProgram = (env # "noProgram"),
                         !.renderProgram = TRUE,
                         !.allocated = @ \cup (IF env = "noProgram" THEN {"renderProgram"}
                                               ELSE {"updateProgram", "renderProgram"})]
        e3 == [e2 EXCEPT !.quad = TRUE, !.allocated = @ \cup {"quad"}]
        first  == AttemptsForFirst(ok)
        second == AttemptsForSecond(ok)
        made0  == BufferMade(first)
        made1  == BufferMade(second)
        e4 == [e3 EXCEPT !.attempts = first \o second,
                         !.stateBuffers = <<made0, made1>>,
                         !.storage = <<IF IsNull(made0) THEN "none" ELSE made0.format,
                                       IF IsNull(made1) THEN "none" ELSE made1.format>>,
                         !.orphans = FailedFloatCreations(first \o second),
                         !.allocated = @ \cup (IF IsNull(made0) THEN {} ELSE BufferObjects(0))
                                         \cup (IF IsNull(made1) THEN {} ELSE BufferObjects(1))]
    IN IF env = "noContext" THEN [e0 EXCEPT !.error = "WebGL2 not supported"]
       ELSE IF env = "noProgram" THEN [e2 EXCEPT !.error = "Shader compilation failed"]
       ELSE IF env = "noQuad" THEN [e2 EXCEPT !.error = "Failed to create quad"]
       ELSE IF IsNull(made0) \/ IsNull(made1)
            THEN [e4 EXCEPT !.error = "Failed to create framebuffers"]
       ELSE [createNoiseTexture(initializeState(e4, draw, twinDraw))
               EXCEPT !.initialized = TRUE, !.error = "none"]

init(env, ok, draw, twinDraw) ==
    /\ engine' = Inited(engine, env, ok, draw, twinDraw)
    /\ UNCHANGED lastTimeRef

\* updateNoiseTexture: the noise is regenerated when noiseTime passes a tenth
updateNoiseTexture(e) ==
    LET noiseTime == RAdd(e.noiseTime, R(5, 1000))
    IN [e EXCEPT !.noiseTime = noiseTime,
                 !.noise = IF RFloor(RMul(noiseTime, RInt(10)))
                              > RFloor(RMul(RSub(noiseTime, R(5, 1000)), RInt(10)))
                           THEN [perm |-> e.PERM, time |-> noiseTime]
                           ELSE @]

uDeltaTime_Raw(deltaTime) == deltaTime

\* the value given to u_deltaTime
uDeltaTime(deltaTime) == RMin(deltaTime, R(5, 100))

\* what the update kernel writes: a function of the texture it reads, the
\* noise and the uniforms
Kernel(state, reads) == [field |-> state.field, steps |-> Append(state.steps, reads)]

\* an update that draws but leaves currentBuffer as it was
Updated_NoSwap(e, audio, p, deltaTime) ==
    IF ~e.initialized \/ ~e.gl THEN [e EXCEPT !.op = "update"]
    ELSE [e EXCEPT !.draw = [read |-> e.currentBuffer, write |-> 1 - e.currentBuffer,
                             u_deltaTime |-> uDeltaTime(deltaTime)],
                   !.updates = @ + 1,
                   !.op = "update"]

\* an update that runs without looking at initialized (not the program's)
Updated_Unguarded(e, audio, p, deltaTime) ==
    LET e1 == updateNoiseTexture(
                [e EXCEPT !.time = RAdd(@, deltaTime),
                          !.lastAudio = audio, !.lastParams = p])
        currentState == e1.currentBuffer
        nextState    == 1 - e1.currentBuffer
        reads == [u_noise |-> e1.noise, u_time |-> e1.time,
                  u_deltaTime |-> uDeltaTime(deltaTime)]
    IN [e1 EXCEPT !.contents[nextState + 1] = Kernel(e1.contents[currentState + 1], reads),
                  !.draw = [read |-> currentState, write |-> nextState,
                            u_deltaTime |-> reads.u_deltaTime],
                  !.currentBuffer = 1 - e1.currentBuffer,
                  !.updates = @ + 1,
                  !.op = "update"]

\* update(audio, params, deltaTime)
Updated(e, audio, p, deltaTime) ==
    IF ~e.initialized \/ ~e.gl THEN [e EXCEPT !.op = "update"]
    ELSE LET e1 == updateNoiseTexture(
                     [e EXCEPT !.time = RAdd(@, deltaTime),
                               !.lastAudio = audio, !.lastParams = p])
             currentState == e1.currentBuffer
             nextState    == 1 - e1.currentBuffer
             reads == [u_noise |-> e1.noise, u_time |-> e1.time,
                       u_deltaTime |-> uDeltaTime(deltaTime),
                       audio |-> [k \in DOMAIN audio \ {"beatDetected"} |-> audio[k]],
                       params |-> MappedParams(p)]
         IN [e1 EXCEPT !.contents[nextState + 1] = Kernel(e1.contents[currentState + 1], reads),
                       !.twin[nextState + 1] = Kernel(e1.twin[currentState + 1], reads),
                       !.draw = [read |-> currentState, write |-> nextState,
                                 u_deltaTime |-> reads.u_deltaTime],
                       !.currentBuffer = 1 - e1.currentBuffer,
                       !.updates = @ + 1,
                       !.op = "update"]

update_(audio, p, deltaTime) ==
    /\ engine' = Updated(engine, audio, p, deltaTime)
    /\ UNCHANGED lastTimeRef

\* render()
Rendered(e) ==
    IF ~e.initialized \/ ~e.gl \/ ~e.canvas THEN [e EXCEPT !.op = "render"]
    ELSE [e EXCEPT !.screen = [u_state |-> e.currentBuffer,
                               u_image |-> IF e.hasUserImage /\ e.imageTexture # 0
                                           THEN "imageTexture" ELSE "currentState"],
                   !.op = "render"]

render ==
    /\ engine' = Rendered(engine)
    /\ UNCHANGED lastTimeRef

\* setSeed(seed)
SeedSet(e, seedString, draw, twinDraw) ==
    LET e1 == [e EXCEPT !.seed = seedString, !.PERM = stringToSeed(seedString),
                        !.op = "setSeed"]
    IN IF e1.initialized THEN initializeState(e1, draw, twinDraw) ELSE e1

setSeed(seedString, draw, twinDraw) ==
    /\ engine' = SeedSet(engine, seedString, draw, twinDraw)
    /\ UNCHANGED lastTimeRef

ImageName(n) == IF n = 1 THEN "imageTexture#1" ELSE IF n = 2 THEN "imageTexture#2"
                ELSE "imageTexture#3"

\* setImage(source)
ImageSet(e) ==
    IF ~e.gl THEN [e EXCEPT !.op = "setImage"]
    ELSE [e EXCEPT !.released = IF e.imageTexture # 0
                                THEN Append(@, ImageName(e.imageTexture)) ELSE @,
                   !.allocated = (@ \ {ImageName(e.imageTexture)})
                                   \cup {ImageName(e.images + 1)},
                   !.imageTexture = e.images + 1,
                   !.images = @ + 1,
                   !.hasUserImage = TRUE,
                   !.op = "setImage"]

setImage ==
    /\ engine' = ImageSet(engine)
    /\ UNCHANGED lastTimeRef

\* initPerlin(seedNum) run by another OscillatorEngine, in its constructor or
\* its setSeed: PERM is one table of the shaders module, shared by all engines
OtherSeeded(e, seedString) == [e EXCEPT !.PERM = stringToSeed(seedString)]

otherEngineSeeded(seedString) ==
    /\ engine' = OtherSeeded(engine, seedString)
    /\ UNCHANGED lastTimeRef

\* the objects dispose deletes, in the order it deletes them
DisposeOrder(e) ==
    (IF e.updateProgram THEN <<"updateProgram">> ELSE <<>>)
    \o (IF e.renderProgram THEN <<"renderProgram">> ELSE <<>>)
    \o (IF IsNull(e.stateBuffers[1]) THEN <<>>
        ELSE <<"stateBuffers[0].framebuffer", "stateBuffers[0].texture">>)
    \o (IF IsNull(e.stateBuffers[2]) THEN <<>>
        ELSE <<"stateBuffers[1].framebuffer", "stateBuffers[1].texture">>)
    \o (IF e.noiseTexture THEN <<"noiseTexture">> ELSE <<>>)

\* dispose()
Disposed(e) ==
    IF ~e.gl THEN [e EXCEPT !.op = "dispose"]
    ELSE LET deleted == DisposeOrder(e)
         IN [e EXCEPT !.released = @ \o deleted,
                      !.allocated = @ \ {deleted[i] : i \in 1..Len(deleted)},
                      !.initialized = FALSE,
                      !.op = "dispose"]

dispose ==
    /\ engine' = Disposed(engine)
    /\ UNCHANGED lastTimeRef

\* WebGLCanvas animate(currentTime), called gap milliseconds after the
\* previous frame
animate(sine, gap) ==
    IF ~engine.initialized
    THEN UNCHANGED <<engine, lastTimeRef, analyzerVars>>
    ELSE LET currentTime == now + gap
             deltaTime == IF lastTimeRef # 0 THEN R(currentTime - lastTimeRef, 1000)
                          ELSE R(16, 1000)
         IN /\ lastTimeRef' = currentTime
            /\ analyze(0, sine, gap)
            /\ engine' = Rendered(Updated(engine, audioData', params, deltaTime))

-----------------------------------------------------------------------------
(* Render shader: the energy layer model of main() *)

Effects == {"dose", "recursion", "symmetry", "breathing", "flow", "saturation"}

easeInQuad(t) == RMul(t, t)

easeOutQuad(t) == RMul(t, RSub(RInt(2), t))

\* t < 0.5 ? 4 t^3 : 1 - (-2 t + 2)^3 / 2
easeInOutCubic(t) ==
    IF RLt(t, R(1, 2))
    THEN RMul(RInt(4), RMul(t, RMul(t, t)))
    ELSE LET u == RAdd(RMul(RInt(-2), t), RInt(2))
         IN RSub(RInt(1), RDiv(RMul(u, RMul(u, u)), RInt(2)))

\* t * t * t * (t * (t * 6 - 15) + 10)
smootherStep(t) ==
    RMul(RMul(t, RMul(t, t)),
         RAdd(RMul(t, RSub(RMul(t, RInt(6)), RInt(15))), RInt(10)))

\* the uniforms render() sets: the mapped parameters and the last audio frame
RenderUniforms(p, audio) ==
    [u_dose |-> mapToPerceptualZone(p.dose),
     u_symmetry |-> mapToPerceptualZone(p.symmetry),
     u_recursion |-> mapToPerceptualZone(p.recursion),
     u_breathing |-> mapToPerceptualZone(p.breathing),
     u_flow |-> mapToPerceptualZone(p.flow),
     u_saturation |-> mapToPerceptualZone(p.saturation),
     u_bass |-> audio.bass, u_lowMid |-> audio.lowMid, u_mid |-> audio.mid,
     u_high |-> audio.high, u_energy |-> audio.energy,
     u_beatIntensity |-> audio.beatIntensity]

\* baseDose, baseRecursion, baseSymmetry, baseBreathing, baseFlow, baseSaturation
BaseOf(u) ==
    [dose |-> u.u_dose,
     recursion |-> easeInOutCubic(u.u_recursion),
     symmetry |-> smootherStep(u.u_symmetry),
     breathing |-> u.u_breathing,
     flow |-> easeOutQuad(u.u_flow),
     saturation |-> easeInQuad(u.u_saturation)]

\* doseEnergy, recursionEnergy, symmetryEnergy, breathingEnergy, flowEnergy,
\* saturationEnergy
EnergyOf(u) ==
    [dose |-> RMul(u.u_energy, R(4, 10)),
     recursion |-> RAdd(RMul(u.u_beatIntensity, R(5, 10)), RMul(u.u_bass, R(3, 10))),
     symmetry |-> RMul(u.u_mid, R(4, 10)),
     breathing |-> RMul(u.u_bass, R(6, 10)),
     flow |-> RMul(u.u_lowMid, R(5, 10)),
     saturation |-> RAdd(RMul(u.u_high, R(4, 10)), RMul(u.u_energy, R(2, 10)))]

Effective_NoHeadroom(base, energy) == RAdd(base, energy)

\* base + energy * (1.0 - base)
Effective(base, energy) == RAdd(base, RMul(energy, RSub(RInt(1), base)))

FragInit == frag = [drawn |-> FALSE]

\* one run of main() under the uniforms of a render() call: the strengths it
\* computes depend on the uniforms only, not on the pixel
renderShaderMain(p, audio) ==
    LET u == RenderUniforms(p, audio)
        base == BaseOf(u)
        energy == EnergyOf(u)
    IN frag' = [drawn |-> TRUE, u |-> u, base |-> base, energy |-> energy,
                effective |-> [k \in Effects |-> Effective(base[k], energy[k])]]

\* slider positions, all six sliders at the same stop
ShaderStops == {R(k, 10) : k \in {0, 2, 4, 6, 8, 9, 10}}
ShaderParams == {[k \in Effects |-> s] : s \in ShaderStops}

\* audio frames with every feature at either end of [0,1] or in the middle
FeatureLevels == {<<0, 1>>, <<1, 2>>, <<1, 1>>}
ShaderAudio ==
    {[bass |-> b, lowMid |-> l, mid |-> m, high |-> h, energy |-> e,
      beatIntensity |-> i] :
        b \in FeatureLevels, l \in FeatureLevels, m \in FeatureLevels,
        h \in FeatureLevels, e \in FeatureLevels, i \in FeatureLevels}

-----------------------------------------------------------------------------
(* lib/perceptual-mapping.ts: the library's mapToPerceptualZone *)

\* smoothstep(edge0, edge1, x)
smoothstep(edge0, edge1, x) ==
    LET t == RMax(RInt(0), RMin(RInt(1), RDiv(RSub(x, edge0), RSub(edge1, edge0))))
    IN RMul(RMul(t, t), RSub(RInt(3), RMul(RInt(2), t)))

\* the formula of branch z of the library's mapToPerceptualZone
LibPerceptualZone(z, linear) ==
    CASE z = 1 -> RMul(easeInOutCubic(RDiv(linear, R(4, 10))), R(2, 10))
      [] z = 2 -> LET normalized == RDiv(RSub(linear, R(4, 10)), R(4, 10))
                  IN RAdd(R(2, 10), RMul(smoothstep(RInt(0), RInt(1), normalized), R(5, 10)))
      [] z = 3 -> LET normalized == RDiv(RSub(linear, R(8, 10)), R(2, 10))
                  IN RAdd(R(7, 10), RMul(easeInOutCubic(normalized), R(3, 10)))

LibMapToPerceptualZone(linear) == LibPerceptualZone(ZoneOf(linear), linear)

ZonesInit == zones = [mapped |-> FALSE]

\* both functions applied to two inputs
mapPair(x1, x2) ==
    zones' = [mapped |-> TRUE, x |-> <<x1, x2>>,
              lib |-> <<LibMapToPerceptualZone(x1), LibMapToPerceptualZone(x2)>>,
              copy |-> <<mapToPerceptualZone(x1), mapToPerceptualZone(x2)>>]

\* inputs over [0,1], the zone boundaries among them
ZoneInputs == {R(k, 80) : k \in 0..80}

-----------------------------------------------------------------------------
(* TrackPlayer: the component that owns the AudioEffectsChain *)

MaxPlayerFrames == 4
MaxPlayPromises == 2

\* tracks of lib/soma-tracks the list offers
Tracks == {1, 2, 3}

PlayerInit ==
    player = [phase |-> "unmounted", audioRef |-> FALSE, currentTrack |-> 0,
              isPlaying |-> FALSE, playPromises |-> 0,
              audioContextRef |-> "null", analyserRef |-> FALSE, sourceRef |-> FALSE,
              effectsChainRef |-> Null, animationRef |-> 0,
              frames |-> {}, requested |-> 0, cleanup |-> <<>>]

\* the mount effect: new Audio(), the ended listener
playerMount ==
    /\ player.phase = "unmounted"
    /\ player' = [player EXCEPT !.phase = "mounted", !.audioRef = TRUE]

\* new AudioEffectsChain(context): both LFOs started
NewChain ==
    [filterLfo |-> "started", breakLfo |-> "started", connected |-> TRUE,
     disposed |-> FALSE, updateCalls |-> 0, lateUpdates |-> 0]

\* AudioEffectsChain.update() called on the player's chain
ChainUpdated(chain) ==
    [chain EXCEPT !.updateCalls = @ + 1,
                  !.lateUpdates = IF chain.disposed THEN @ + 1 ELSE @]

\* AudioEffectsChain.dispose()
ChainDisposed_LfoRunning(chain) ==
    [chain EXCEPT !.connected = FALSE, !.disposed = TRUE]

ChainDisposed(chain) ==
    [chain EXCEPT !.filterLfo = "stopped", !.breakLfo = "stopped",
                  !.connected = FALSE, !.disposed = TRUE]

\* updateLoop(): update the chain if there is one, then request the next frame
UpdateLoopRun(pl) ==
    [pl EXCEPT !.effectsChainRef = IF IsNull(@) THEN @ ELSE ChainUpdated(@),
               !.animationRef = pl.requested + 1,
               !.frames = @ \cup {pl.requested + 1},
               !.requested = @ + 1]

\* initAudioContext()
AudioContextInited(pl) ==
    IF ~pl.audioRef \/ pl.audioContextRef # "null" THEN pl
    ELSE UpdateLoopRun([pl EXCEPT !.sourceRef = TRUE,
                                  !.audioContextRef = "running",
                                  !.analyserRef = TRUE,
                                  !.effectsChainRef = NewChain])

\* playTrack(track), up to the call of play()
playTrack(track) ==
    /\ player.phase = "mounted"
    /\ player' =
         IF ~player.audioRef THEN player
         ELSE LET selected == [player EXCEPT !.currentTrack = track]
                  ready == IF selected.audioContextRef = "null"
                           THEN AudioContextInited(selected) ELSE selected
              IN [ready EXCEPT !.playPromises = @ + 1]

\* play().then(...): the promise of a play() call resolves
playResolved ==
    /\ player.playPromises > 0
    /\ player' = [player EXCEPT !.playPromises = @ - 1,
                                !.isPlaying = IF player.phase = "mounted" THEN TRUE ELSE @]

\* togglePlay(), up to the call of play()
togglePlay ==
    /\ player.phase = "mounted"
    /\ player.currentTrack # 0
    /\ player' =
         IF ~player.audioRef THEN player
         ELSE IF player.isPlaying THEN [player EXCEPT !.isPlaying = FALSE]
         ELSE [player EXCEPT !.playPromises = @ + 1]

\* the browser runs a requested animation frame: updateLoop
playerFrame(id) ==
    /\ id \in player.frames
    /\ player' = UpdateLoopRun([player EXCEPT !.frames = @ \ {id}])

\* the cleanup of the mount effect
playerUnmount_DisposeFirst ==
    /\ player.phase = "mounted"
    /\ LET disposed == IF ~IsNull(player.effectsChainRef)
                       THEN [player EXCEPT !.effectsChainRef = ChainDisposed(@),
                                           !.cleanup = Append(@, "dispose")]
                       ELSE player
       IN player' = [disposed EXCEPT !.phase = "torn down"]

playerUnmount ==
    /\ player.phase = "mounted"
    /\ LET cancelled == IF player.animationRef # 0
                        THEN [player EXCEPT !.frames = @ \ {player.animationRef},
                                            !.cleanup = Append(@, "cancelAnimationFrame")]
                        ELSE player
           disposed == IF ~IsNull(cancelled.effectsChainRef)
                       THEN [cancelled EXCEPT !.effectsChainRef = ChainDisposed(@),
                                              !.cleanup = Append(@, "dispose")]
                       ELSE cancelled
           closed == IF disposed.audioContextRef \notin {"null", "closed"}
                     THEN [disposed EXCEPT !.audioContextRef = "closed",
                                           !.cleanup = Append(@, "close")]
                     ELSE disposed
       IN player' = [closed EXCEPT !.phase = "torn down"]

-----------------------------------------------------------------------------
(* WebGLCanvas: the init effect, its cleanup and the animation loop *)

MaxEffectRuns == 2
MaxCanvasFrames == 3

CanvasInit ==
    canvasLoop = [phase |-> "unmounted",
                  engines |-> <<>>,      \* the engines created, engineRef the last
                  animationRef |-> 0,
                  frames |-> {}, requested |-> 0,
                  draws |-> 0,           \* frames that reached update and render
                  lateRequests |-> 0,    \* frames requested after the teardown
                  lateRuns |-> 0]        \* frames run after the teardown

\* requestAnimationFrame(animate), its id stored in animationRef
FrameRequested(c) ==
    [c EXCEPT !.animationRef = c.requested + 1,
              !.frames = @ \cup {c.requested + 1},
              !.requested = @ + 1,
              !.lateRequests = IF c.phase = "torn down" THEN @ + 1 ELSE @]

\* the init effect's body: a new engine in engineRef and init(canvas) called on
\* it; ok tells whether init returns or throws
EffectRun(c, ok) ==
    [c EXCEPT !.phase = "mounted",
              !.engines = Append(@, [initialized |-> ok,
                                     settled |-> IF ok THEN "then" ELSE "catch"])]

\* the init effect's cleanup: cancelAnimationFrame(animationRef.current), then
\* dispose of the engine the effect created
CleanupRun(c) ==
    [c EXCEPT !.frames = @ \ {c.animationRef},
              !.engines[Len(c.engines)].initialized = FALSE]

\* the component mounts: the init effect runs for the first time
canvasMount(ok) ==
    /\ canvasLoop.phase = "unmounted"
    /\ canvasLoop' = EffectRun(canvasLoop, ok)

\* seed changes: the cleanup of the last run, then the effect again
canvasSeedChanged(ok) ==
    /\ canvasLoop.phase = "mounted"
    /\ canvasLoop' = EffectRun(CleanupRun(canvasLoop), ok)

\* the component unmounts: the cleanup of the last run
canvasUnmount ==
    /\ canvasLoop.phase = "mounted"
    /\ canvasLoop' = [CleanupRun(canvasLoop) EXCEPT !.phase = "torn down"]

\* the continuation of the init promise of engine g runs: .then requests the
\* first frame, .catch logs
initSettled(g) ==
    /\ g \in 1..Len(canvasLoop.engines)
    /\ canvasLoop.engines[g].settled # "done"
    /\ LET c == [canvasLoop EXCEPT !.engines[g].settled = "done"]
       IN canvasLoop' = IF canvasLoop.engines[g].settled = "then"
                        THEN FrameRequested(c) ELSE c

\* the browser runs a requested frame: animate(currentTime), here without the
\* work update and render do
canvasFrame(id) ==
    /\ id \in canvasLoop.frames
    /\ LET c == [canvasLoop EXCEPT
                   !.frames = @ \ {id},
                   !.lateRuns = IF canvasLoop.phase = "torn down" THEN @ + 1 ELSE @]
           engineRef == c.engines[Len(c.engines)]
       IN canvasLoop' = IF ~engineRef.initialized
                        THEN FrameRequested(c)
                        ELSE FrameRequested([c EXCEPT !.draws = @ + 1])

RestInit == FragInit /\ ZonesInit /\ PlayerInit /\ CanvasInit

-----------------------------------------------------------------------------
(* Specifications *)

\* the page before audio is started: the chain is as constructed
PageSpecInit == PageInit /\ ChainInit /\ AnalyzerInit /\ EngineInit /\ RestInit /\ variant = 1

\* the page with its sliders exercised: slider moves, pasted seeds,
\* Generate / Load / Reset
SliderStep ==
    \/ MountEffect /\ UNCHANGED notPage
    \/ /\ \E k \in {VisualKeys[i] : i \in 1..6}, v \in SliderStops : updateParam(k, v)
       /\ UNCHANGED notPage
    \/ /\ \E k \in {AudioKeys[i] : i \in 1..3}, v \in SliderStops : updateAudioParam(k, v)
       /\ UNCHANGED notPage
    \/ (\E v \in PastedSeeds : setSeedInput(v)) /\ UNCHANGED notPage
    \/ handleReset /\ UNCHANGED notPage
    \/ handleGenerateSeed /\ UNCHANGED notPage
    \/ handleLoadSeed /\ UNCHANGED notPage

SliderSpec == PageSpecInit /\ [][SliderStep]_vars

\* the page with its seed input exercised: typed seed strings,
\* Generate / Load / Reset
SeedInputStep ==
    \/ MountEffect /\ UNCHANGED notPage
    \/ (\E v \in InputStrings : setSeedInput(v)) /\ UNCHANGED notPage
    \/ handleReset /\ UNCHANGED notPage
    \/ handleGenerateSeed /\ UNCHANGED notPage
    \/ handleLoadSeed /\ UNCHANGED notPage

SeedInputSpec == PageSpecInit /\ [][SeedInputStep]_vars

ChainSpecInit == PageInit /\ ChainInit /\ AnalyzerInit /\ EngineInit /\ RestInit

ChainStep ==
    \/ (\E p \in TargetChoices : setParams(p)) /\ UNCHANGED notChain
    \/ (\E p \in TargetChoices : callerMutate(p)) /\ UNCHANGED notChain
    \/ updates < MaxUpdates /\ update /\ UNCHANGED notChain

\* the effects chain under arbitrary setParams / update sequences
ChainSpec == ChainSpecInit /\ [][ChainStep]_vars

SweepStep ==
    \/ (\E p \in SweepTargets : setParams(p)) /\ UNCHANGED notChain
    \/ updates < MaxSweepUpdates /\ update /\ UNCHANGED notChain

\* the sweep of the smoothed controls over [0,1]
SweepSpec == ChainSpecInit /\ [][SweepStep]_vars

HoldInit ==
    /\ PageInit
    /\ AnalyzerInit
    /\ EngineInit
    /\ RestInit
    /\ \E p \in HoldTargets :
         /\ ChainInit!1 /\ ChainInit!5 /\ ChainInit!6 /\ ChainInit!7 /\ ChainInit!8
         /\ callerParams = p
         /\ targetRef = "own"
         /\ targetOwn = p
         /\ lastOp = "setParams"
         /\ inRange = TRUE

HoldStep == updates < MaxHoldUpdates /\ update /\ UNCHANGED notChain

\* one more frame of the animation loop has run
FrameTick == updates < MaxHoldUpdates /\ updates' = updates + 1

\* the animation loop running with the target held fixed: requestAnimationFrame
\* keeps calling update, so the frame count cannot stay put
HoldSpec == HoldInit /\ [][HoldStep]_vars /\ WF_updates(FrameTick)

Spec == ChainSpecInit /\ [][SliderStep \/ SeedInputStep \/ ChainStep]_vars

AnalyzerSpecInit == PageInit /\ ChainInit /\ AnalyzerInit /\ EngineInit /\ RestInit /\ variant = 1

\* frames whose spectrum does not fall: silence, then sound that holds or rises
AnalyzerStep ==
    \/ /\ IsNull(analyser)
       /\ \E n \in FrequencyBinCounts : setAnalyser([frequencyBinCount |-> n])
       /\ UNCHANGED notAnalyzer
    \/ /\ IsNull(analyser)
       /\ frameCount.idle < MaxIdleFrames
       /\ \E s \in SineSamples : analyze(0, s, 16)
       /\ UNCHANGED notAnalyzer
    \/ /\ ~IsNull(analyser)
       /\ \E byte \in SpectrumBytes, gap \in FrameGaps :
            /\ RLe(analyzer.prevSpectrum, R(byte, 255))
            /\ IF byte = 0 THEN frameCount.silent < MaxSilentFrames
                           ELSE frameCount.loud < MaxLoudFrames
            /\ analyze(byte, <<0, 1>>, gap)
       /\ UNCHANGED notAnalyzer

\* the analyzer fed by the animation loop, idle first and then with a source
AnalyzerSpec == AnalyzerSpecInit /\ [][AnalyzerStep]_vars

\* the bytes a spike holds every bin at
SpikeBytes == {51, 255}

\* silence for longer than the history window, then a flat spectrum that
\* steps up and is held
SpikeStep ==
    \/ /\ IsNull(analyser)
       /\ \E n \in FrequencyBinCounts : setAnalyser([frequencyBinCount |-> n])
       /\ UNCHANGED notAnalyzer
    \/ /\ IsNull(analyser)
       /\ frameCount.idle < MaxIdleFrames
       /\ \E s \in SineSamples : analyze(0, s, 16)
       /\ UNCHANGED notAnalyzer
    \/ /\ ~IsNull(analyser)
       /\ frameCount.silent < WarmupFrames
       /\ analyze(0, <<0, 1>>, 16)
       /\ UNCHANGED notAnalyzer
    \/ /\ ~IsNull(analyser)
       /\ frameCount.silent = WarmupFrames
       /\ frameCount.loud < MaxSpikeFrames
       /\ \E byte \in SpikeBytes, gap \in {16, 130} :
            /\ frameCount.loud > 0 => analyzer.prevSpectrum = R(byte, 255)
            /\ analyze(byte, <<0, 1>>, gap)
       /\ UNCHANGED notAnalyzer

SpikeSpec == AnalyzerSpecInit /\ [][SpikeStep]_vars

EngineSpecInit == PageInit /\ ChainInit /\ AnalyzerInit /\ EngineInit /\ RestInit /\ variant = 1

AllSucceed == [a \in Attempts |-> TRUE]

\* the engine running: init on a context where every creation succeeds, then
\* seeds and frames
EngineStep ==
    \/ /\ ~engine.canvas
       /\ \E draw \in RandomDraws, twinDraw \in RandomDraws :
            init("ok", AllSucceed, draw, twinDraw)
       /\ UNCHANGED <<notEngine, analyzerVars>>
    \/ /\ \E s \in EngineSeeds, draw \in RandomDraws, twinDraw \in RandomDraws :
            setSeed(s, draw, twinDraw)
       /\ UNCHANGED <<notEngine, analyzerVars>>
    \/ /\ engine.updates < MaxEngineUpdates
       /\ \E audio \in EngineAudioFrames, deltaTime \in DeltaTimes :
            update_(audio, params, deltaTime)
       /\ UNCHANGED <<notEngine, analyzerVars>>
    \/ /\ render
       /\ UNCHANGED <<notEngine, analyzerVars>>
    \/ /\ engine.initialized
       /\ engine.updates < MaxEngineUpdates
       /\ animate(<<0, 1>>, 130)
       /\ UNCHANGED notEngine

EngineSpec == EngineSpecInit /\ [][EngineStep]_vars

\* the engine's GL objects: init on any context, images, dispose
LifecycleStep ==
    \/ /\ ~engine.canvas
       /\ \E env \in InitEnvironments, ok \in Outcomes :
            /\ env # "ok" => ok = AllSucceed
            /\ init(env, ok, R(1, 4), R(1, 4))
       /\ UNCHANGED <<notEngine, analyzerVars>>
    \/ /\ engine.images < MaxImages
       /\ setImage
       /\ UNCHANGED <<notEngine, analyzerVars>>
    \/ /\ engine.initialized
       /\ \E s \in EngineSeeds : setSeed(s, R(1, 4), R(1, 4))
       /\ UNCHANGED <<notEngine, analyzerVars>>
    \/ /\ engine.canvas
       /\ engine.op # "dispose"
       /\ dispose
       /\ UNCHANGED <<notEngine, analyzerVars>>

LifecycleSpec == EngineSpecInit /\ [][LifecycleStep]_vars

\* update and render called at any point of the engine's life: before init,
\* after an init that failed or succeeded, after dispose
GuardStep ==
    \/ /\ ~engine.canvas
       /\ \E env \in InitEnvironments, ok \in Outcomes :
            /\ env # "ok" => ok = AllSucceed
            /\ init(env, ok, R(1, 4), R(1, 4))
       /\ UNCHANGED <<notEngine, analyzerVars>>
    \/ /\ engine.updates < MaxEngineUpdates
       /\ \E deltaTime \in DeltaTimes :
            update_(getIdleAudioData(<<1, 1>>), params, deltaTime)
       /\ UNCHANGED <<notEngine, analyzerVars>>
    \/ /\ render
       /\ UNCHANGED <<notEngine, analyzerVars>>
    \/ /\ engine.canvas
       /\ engine.released = <<>>
       /\ dispose
       /\ UNCHANGED <<notEngine, analyzerVars>>

GuardSpec == EngineSpecInit /\ [][GuardStep]_vars

\* an engine running beside another one: the other engine is constructed or
\* reseeded at any moment, and updates go on until the noise is regenerated
SharedNoiseStep ==
    \/ /\ \E s \in EngineSeeds : otherEngineSeeded(s)
       /\ UNCHANGED <<notEngine, analyzerVars>>
    \/ /\ ~engine.canvas
       /\ init("ok", AllSucceed, R(1, 4), R(1, 4))
       /\ UNCHANGED <<notEngine, analyzerVars>>
    \/ /\ engine.updates = 0
       /\ \E s \in EngineSeeds : setSeed(s, R(1, 4), R(1, 4))
       /\ UNCHANGED <<notEngine, analyzerVars>>
    \/ /\ engine.updates < MaxNoiseUpdates
       /\ update_(getIdleAudioData(<<1, 1>>), params, R(16, 1000))
       /\ UNCHANGED <<notEngine, analyzerVars>>

SharedNoiseSpec == EngineSpecInit /\ [][SharedNoiseStep]_vars

\* the render shader run once under slider positions and audio frames over
\* [0,1]: what it computes depends on nothing an earlier draw left behind
ShaderStep ==
    /\ ~frag.drawn
    /\ \E p \in ShaderParams, audio \in ShaderAudio : renderShaderMain(p, audio)
    /\ UNCHANGED <<notRest, zones, player, canvasLoop>>

ShaderSpec == PageSpecInit /\ [][ShaderStep]_vars

\* the perceptual mapping applied once to a pair of inputs over [0,1]
ZoneStep ==
    /\ ~zones.mapped
    /\ \E x1 \in ZoneInputs, x2 \in ZoneInputs : RLe(x1, x2) /\ mapPair(x1, x2)
    /\ UNCHANGED <<notRest, frag, player, canvasLoop>>

ZoneSpec == PageSpecInit /\ [][ZoneStep]_vars

\* the player mounted, used and torn down, with the browser running the
\* animation frames it requested
PlayerStep ==
    \/ playerMount /\ UNCHANGED <<notRest, frag, zones, canvasLoop>>
    \/ /\ player.playPromises < MaxPlayPromises
       /\ \E track \in Tracks : playTrack(track)
       /\ UNCHANGED <<notRest, frag, zones, canvasLoop>>
    \/ playResolved /\ UNCHANGED <<notRest, frag, zones, canvasLoop>>
    \/ /\ player.playPromises < MaxPlayPromises
       /\ togglePlay
       /\ UNCHANGED <<notRest, frag, zones, canvasLoop>>
    \/ /\ player.requested < MaxPlayerFrames
       /\ \E id \in player.frames : playerFrame(id)
       /\ UNCHANGED <<notRest, frag, zones, canvasLoop>>
    \/ playerUnmount /\ UNCHANGED <<notRest, frag, zones, canvasLoop>>

PlayerSpec == PageSpecInit /\ [][PlayerStep]_vars

\* the canvas mounted, reseeded and unmounted, with init promises settling and
\* the browser running frames in between
CanvasStep ==
    \/ (\E ok \in BOOLEAN : canvasMount(ok)) /\ UNCHANGED <<notRest, frag, zones, player>>
    \/ /\ Len(canvasLoop.engines) < MaxEffectRuns
       /\ \E ok \in BOOLEAN : canvasSeedChanged(ok)
       /\ UNCHANGED <<notRest, frag, zones, player>>
    \/ canvasUnmount /\ UNCHANGED <<notRest, frag, zones, player>>
    \/ /\ \E g \in 1..Len(canvasLoop.engines) : initSettled(g)
       /\ UNCHANGED <<notRest, frag, zones, player>>
    \/ /\ canvasLoop.requested < MaxCanvasFrames
       /\ \E id \in canvasLoop.frames : canvasFrame(id)
       /\ UNCHANGED <<notRest, frag, zones, player>>

CanvasSpec == PageSpecInit /\ [][CanvasStep]_vars

-----------------------------------------------------------------------------
(* Seed codec: properties *)

FieldOrder ==
    <<"dose", "symmetry", "recursion", "breathing", "flow", "saturation",
      "echo", "drift", "break_">>

\* the i-th control of the page's parameter set, in the seed's field order
FieldOf(p, a, i) == IF i <= 6 THEN p[FieldOrder[i]] ELSE a[FieldOrder[i]]

ParamsInUnit == \A i \in 1..9 : InUnit(FieldOf(params, audioParams, i))

OneOver255 == R(1, 255)

\* C1: for every parameter set with all 9 components in [0,1],
\* decodeSeed(encodeSeed(p)) is non-null and every component of it is within
\* 1/255 of the corresponding component of p.
C1_RoundTrip ==
    ParamsInUnit =>
        LET d == decodeSeed(encodeSeed(params, audioParams))
        IN /\ ~IsNull(d)
           /\ \A i \in 1..9 :
                RLe(RAbs(RSub(FieldOf(d.params, d.audioParams, i),
                              FieldOf(params, audioParams, i))),
                    OneOver255)

\* C1 witness: Generate has encoded a parameter set that the round trip
\* does not reproduce exactly (dose 0.5 comes back as 128/255)
C1_Witness ==
    /\ lastToast = "Seed generated"
    /\ seed = encodeSeed(params, audioParams)
    /\ params.dose = R(1, 2)
    /\ decodeSeed(seed).params.dose = R(128, 255)

\* b is Math.round(255 * v): the nearest integer, ties upward
IsRounded255(b, v) ==
    /\ RLe(RSub(RInt(b), R(1, 2)), RMul(RInt(255), v))
    /\ RLt(RMul(RInt(255), v), RAdd(RInt(b), R(1, 2)))

AllFields(p, a, v) == \A i \in 1..9 : FieldOf(p, a, i) = v

\* C3: encodeSeed returns "SR-" followed by exactly 18 upper-case hex
\* characters, byte i being round(255 * field i) in the order dose, symmetry,
\* recursion, breathing, flow, saturation, echo, drift, break; decodeSeed reads
\* byte i back into field i; all-ones gives SR-FFFFFFFFFFFFFFFFFF and all-zeros
\* SR-000000000000000000, and both decode back exactly.
C3_Format ==
    ParamsInUnit =>
        LET s == encodeSeed(params, audioParams)
            d == decodeSeed(s)
        IN /\ Len(s) = 21
           /\ SubSeq(s, 1, 3) = <<"S", "R", "-">>
           /\ \A j \in 4..21 : s[j] \in HexDigitSet
           /\ ~IsNull(d)
           /\ \A i \in 1..9 :
                LET b == 16 * HexDigitValue(s[2 * i + 2]) + HexDigitValue(s[2 * i + 3])
                IN /\ IsRounded255(b, FieldOf(params, audioParams, i))
                   /\ FieldOf(d.params, d.audioParams, i) = R(b, 255)
           /\ AllFields(params, audioParams, RInt(1)) =>
                /\ s = PrefixSR \o OnesBody
                /\ AllFields(d.params, d.audioParams, RInt(1))
           /\ AllFields(params, audioParams, RInt(0)) =>
                /\ s = PrefixSR \o ZeroBody
                /\ AllFields(d.params, d.audioParams, RInt(0))

\* C3 witness: Generate has encoded the all-ones parameter set
C3_Witness ==
    /\ lastToast = "Seed generated"
    /\ AllFields(params, audioParams, RInt(1))
    /\ seed = PrefixSR \o OnesBody

Accepted(s) == ~IsNull(decodeSeed(s))

IsHexEitherCase(c) == c \in HexDigitSet \cup {"a", "b", "c", "d", "e", "f"}

\* the input with a leading "SR-" (in either case) taken off, nothing else done
AfterPrefix(s) ==
    IF Len(s) >= 3 /\ s[1] \in {"S", "s"} /\ s[2] \in {"R", "r"} /\ s[3] = "-"
    THEN SubSeq(s, 4, Len(s)) ELSE s

\* C2 as stated: decodeSeed and isValidSeed accept exactly the inputs whose
\* remainder after the prefix is exactly 18 hex characters (either case).
C2_Original ==
    LET r == AfterPrefix(seedInput)
    IN /\ Accepted(seedInput) <=> isValidSeed(seedInput)
       /\ Accepted(seedInput) <=>
            (Len(r) = 18 /\ \A i \in 1..Len(r) : IsHexEitherCase(r[i]))

\* C2 (amended): decodeSeed and isValidSeed accept exactly the same inputs,
\* namely those that, once surrounding white space is trimmed and the string
\* is upper-cased, are 18 characters 0-9A-F, optionally preceded by one "SR-";
\* every other input yields null / false.
C2_SameInputsTrimmed ==
    /\ Accepted(seedInput) <=> isValidSeed(seedInput)
    /\ Accepted(seedInput) <=>
         \E i \in 0..Len(seedInput), j \in 0..Len(seedInput) :
            /\ j - i \in {16, 17, 18, 19, 20, 21}
            /\ \A k \in 1..i : seedInput[k] \in WhiteSpace
            /\ \A k \in (j + 1)..Len(seedInput) : seedInput[k] \in WhiteSpace
            /\ seedInput[i + 1] \notin WhiteSpace
            /\ seedInput[j] \notin WhiteSpace
            /\ LET u == toUpperCase(SubSeq(seedInput, i + 1, j))
               IN \/ Len(u) = 18 /\ \A k \in 1..18 : u[k] \in HexDigitSet
                  \/ /\ Len(u) = 21
                     /\ SubSeq(u, 1, 3) = <<"S", "R", "-">>
                     /\ \A k \in 4..21 : u[k] \in HexDigitSet

\* C2 witness: Load has accepted an input that carries surrounding white space
C2_Witness ==
    /\ lastToast = "Seed loaded"
    /\ seedInput # <<>>
    /\ seedInput[Len(seedInput)] \in WhiteSpace
    /\ isValidSeed(seedInput)

\* how many times "SR-" stands at the start of the trimmed, upper-cased input
RECURSIVE LeadingPrefixes(_)
LeadingPrefixes(s) ==
    IF Len(s) >= 3 /\ SubSeq(s, 1, 3) = <<"S", "R", "-">>
    THEN 1 + LeadingPrefixes(SubSeq(s, 4, Len(s)))
    ELSE 0

PrefixCount == LeadingPrefixes(toUpperCase(trim(seedInput)))

Rejected(s) == IsNull(decodeSeed(s)) /\ ~isValidSeed(s)

\* C4 as stated: a seed string whose "SR-" prefix is missing or present more
\* than once is rejected by isValidSeed and decodeSeed.
C4_Original == PrefixCount # 1 => Rejected(seedInput)

\* C4 (amended): a seed string whose "SR-" prefix is present more than once is
\* rejected by isValidSeed and decodeSeed; a string whose prefix is missing is
\* rejected unless it is (trimmed, upper-cased) exactly 18 hex characters, in
\* which case both accept it; every call returns a result (nothing is thrown).
C4_PrefixHandling ==
    /\ PrefixCount >= 2 => Rejected(seedInput)
    /\ PrefixCount = 0 =>
         IF Hex18Test(toUpperCase(trim(seedInput)))
         THEN Accepted(seedInput) /\ isValidSeed(seedInput)
         ELSE Rejected(seedInput)
    /\ isValidSeed(seedInput) \in BOOLEAN
    /\ IsNull(decodeSeed(seedInput)) \/ DOMAIN decodeSeed(seedInput) = {"params", "audioParams"}

\* C4 witness: Load has refused an input that starts with "SR-SR-"
C4_Witness ==
    /\ lastToast = "Invalid seed"
    /\ PrefixCount >= 2
    /\ Len(seedInput) = 24

-----------------------------------------------------------------------------
(* Effects chain: properties *)

SixTenths == R(6, 10)

\* C5: after any sequence of setParams (with arbitrary target values) and
\* update calls, the feedback gain computed by update and scheduled onto the
\* feedback node never exceeds 0.6.
C5_FeedbackBound ==
    /\ RLe(nodes.feedbackGain, SixTenths)
    /\ RLe(debugValues.echo.feedback, SixTenths)

\* C5 witness: update has run with the smoothed echo above 1 (target 20) and
\* has scheduled exactly 0.6
C5_Witness ==
    /\ lastOp = "update"
    /\ RLt(RInt(1), currentParams.echo)
    /\ nodes.feedbackGain = SixTenths

\* update has just computed the drift mapping from a smoothed drift in [0,1]
DriftComputedInUnit == lastOp = "update" /\ InUnit(currentParams.drift)

\* C6: for every smoothed drift in [0,1], the base cutoff computed by update
\* is never below the variant's floor minFreq (2000 Hz / 2500 Hz), and it is
\* non-increasing as drift increases.
C6_CutoffFloor ==
    DriftComputedInUnit =>
        /\ RLe(RInt(minFreq), debugValues.drift.baseFreq)
        /\ nodes.filterFrequency = debugValues.drift.baseFreq
        /\ minFreq = IF variant = 1 THEN 2000 ELSE 2500
        /\ \A g \in SweepGrid :
             /\ RLe(g, currentParams.drift) =>
                  RLe(debugValues.drift.baseFreq, baseFreq(g))
             /\ RLe(currentParams.drift, g) =>
                  RLe(baseFreq(g), debugValues.drift.baseFreq)

\* C6 witness: update has run at full drift and the cutoff sits on the floor
C6_Witness ==
    /\ lastOp = "update"
    /\ currentParams.drift = RInt(1)
    /\ nodes.filterFrequency = RInt(minFreq)

\* C7: for every smoothed drift in [0,1], the lowest cutoff reached by the
\* LFO sweep, baseFreq - lfoDepth, is at least minFreq.
C7_SweepAboveFloor ==
    DriftComputedInUnit =>
        RLe(RInt(minFreq), RSub(nodes.filterFrequency, nodes.filterLfoGain))

\* an update step has been taken
UpdateStep == updates' = updates + 1

\* C8: each update replaces each of the three smoothed controls by
\* current + 0.05 * (target - current), independently per component, and
\* every node value it schedules is computed from the new smoothed value.
C8_SmoothingStep ==
    [][UpdateStep =>
         /\ \A k \in {"echo", "drift", "break_"} :
              RMul(RInt(20), RSub(currentParams'[k], currentParams[k])) =
                  RSub(targetParams[k], currentParams[k])
         /\ nodes'.delayWetGain = delayWet(currentParams'.echo)
         /\ nodes'.feedbackGain = feedback(currentParams'.echo)
         /\ nodes'.delayTime = delayTime(currentParams'.echo)
         /\ nodes'.filterFrequency = baseFreq(currentParams'.drift)
         /\ nodes'.filterLfoGain = lfoDepth(currentParams'.drift)
         /\ nodes'.filterQ = filterQ(currentParams'.drift)
         /\ nodes'.filterLfoFrequency = lfoSpeed(currentParams'.drift)
         /\ nodes'.breakLfoFrequency = breakGate(currentParams'.break_).gateRate
         /\ debugValues'.break_.gateMin = breakGate(currentParams'.break_).gateMin
    ]_vars

\* C8 witness: update has moved the three controls from their defaults by
\* three different amounts toward the target (0.5, 1, 0.25)
C8_Witness ==
    /\ lastOp = "update"
    /\ updates = 1
    /\ targetParams = [echo |-> R(1, 2), drift |-> RInt(1), break_ |-> R(1, 4)]
    /\ currentParams = [echo |-> R(43, 200), drift |-> R(29, 200), break_ |-> R(1, 80)]

\* C9: setParams changes only the stored target: the smoothed controls, the
\* debug values and the scheduled node values are unchanged by it and change
\* only on update; the target is a copy, so a later mutation of the caller's
\* object does not change it.
C9_SetParamsFrame ==
    [][/\ lastOp' = "setParams" =>
            /\ UNCHANGED <<currentParams, debugValues, nodes>>
            /\ targetParams' = callerParams'
       /\ lastOp' = "callerMutate" => targetParams' = targetParams
       /\ (currentParams' # currentParams \/ debugValues' # debugValues
             \/ nodes' # nodes) => UpdateStep
    ]_vars

\* C9 witness: after setParams the caller has overwritten its object and the
\* stored target still holds the values passed
C9_Witness ==
    /\ lastOp = "callerMutate"
    /\ targetParams = Triple(RInt(1))
    /\ callerParams = Triple(RInt(0))
    /\ currentParams = DEFAULT_AUDIO_PARAMS

Distance(k) == RAbs(RSub(targetParams[k], currentParams[k]))

\* a tolerance the held runs can reach within MaxHoldUpdates updates
Tolerance == R(17, 20)

\* every control is within Tolerance of its target
WithinTolerance == \A k \in {"echo", "drift", "break_"} : RLe(Distance(k), Tolerance)

InRangeStays == inRange => AllInUnit(currentParams)

\* n lies between c and g, and is strictly nearer to g than c unless c = g
MovesToward(c, n, g) ==
    /\ RLe(RMin(c, g), n) /\ RLe(n, RMax(c, g))
    /\ RLe(RAbs(RSub(g, n)), RAbs(RSub(g, c)))
    /\ c # g => RLt(RAbs(RSub(g, n)), RAbs(RSub(g, c)))

-----------------------------------------------------------------------------
(* Break gate: properties *)

\* the activation threshold of the break stage
BreakThreshold == IF variant = 1 THEN R(15, 100) ELSE R(5, 100)

\* C11: whenever the smoothed break control is below the activation threshold
\* (0.15 / 0.05), update fully bypasses the gate: gateDepth = 0, gateMin =
\* gateMax = gateCenter = 1 and the scale written to breakLfoGain is 0; at or
\* above the threshold gateDepth and gateRate are non-decreasing in the control.
C11_BreakBypass ==
    lastOp = "update" =>
        IF RLt(currentParams.break_, BreakThreshold)
        THEN /\ debugValues.break_.gateDepth = RInt(0)
             /\ debugValues.break_.gateMin = RInt(1)
             /\ debugValues.break_.gateMax = RInt(1)
             /\ debugValues.break_.gateCenter = RInt(1)
             /\ nodes.gateGain = RInt(1)
             /\ nodes.breakLfoGain = RInt(0)
        ELSE \A g \in SweepGrid :
               /\ (RLe(BreakThreshold, g) /\ RLe(g, currentParams.break_)) =>
                    /\ RLe(breakGate(g).gateDepth, debugValues.break_.gateDepth)
                    /\ RLe(breakGate(g).gateRate, debugValues.break_.gateRate)
                    /\ RLe(breakGate(g).gateRate, nodes.breakLfoFrequency)
               /\ RLe(currentParams.break_, g) =>
                    /\ RLe(debugValues.break_.gateDepth, breakGate(g).gateDepth)
                    /\ RLe(debugValues.break_.gateRate, breakGate(g).gateRate)

\* C11 witness: update has run with the break control at 0.1, below the first
\* variant's threshold, and the gate is bypassed
C11_Witness ==
    /\ lastOp = "update"
    /\ variant = 1
    /\ currentParams.break_ = R(1, 10)
    /\ nodes.breakLfoGain = RInt(0)
    /\ nodes.gateGain = RInt(1)

\* C12: for every smoothed break value in [0,1] and every LFO phase, the gain
\* applied by the gate (the scheduled gateCenter plus lfoScale times the shaper
\* output, which lies in the curve's range of about 0.3 to 1.0) is strictly
\* positive.
C12_GateNeverSilent ==
    (lastOp = "update" /\ InUnit(currentParams.break_)) =>
        \A i \in CurveSamples :
           /\ RLe(R(3, 10), createBreakCurve[i]) /\ RLe(createBreakCurve[i], RInt(1))
           /\ RLt(RInt(0), GateGainAt(i))

\* C12 witness: update has run at full break (later variant: gateMin 0.1,
\* depth 0.9) and the LFO sits on the lowest curve sample
C12_Witness ==
    /\ lastOp = "update"
    /\ variant = 2
    /\ currentParams.break_ = RInt(1)
    /\ nodes.breakLfoGain = R(63, 100)
    /\ RLt(GateGainAt(0), RInt(1))


\* C25: for every smoothed break value in [0,1] and every LFO phase, the gain
\* applied by the gate (gateCenter plus lfoScale times the shaper output) lies
\* in the range [gateMin, gateMax] that getDebugValues reports, with gateMax = 1,
\* and at the bottom of the LFO cycle it is gateMin.
C25_GainWithinRange ==
    (lastOp = "update" /\ InUnit(currentParams.break_)) =>
        /\ debugValues.break_.gateMax = RInt(1)
        /\ \A i \in CurveSamples :
             /\ RLe(debugValues.break_.gateMin, GateGainAt(i))
             /\ RLe(GateGainAt(i), debugValues.break_.gateMax)
        /\ GateGainAt(0) = debugValues.break_.gateMin

-----------------------------------------------------------------------------
(* AudioAnalyzer: properties *)

\* C13: any two frames that report beatDetected = TRUE are more than the
\* cooldown of 120 ms of performance.now time apart
C13_BeatCooldown ==
    \A i \in 1..Len(beatLog) : \A j \in 1..Len(beatLog) :
        i < j => beatLog[j] - beatLog[i] > 120

\* two beats have been reported, the second on the frame after the first
C13_Witness ==
    /\ Len(beatLog) = 2
    /\ ~IsNull(audioData) /\ audioData.beatDetected
    /\ beatLog[2] = now /\ beatLog[2] - beatLog[1] = 130

\* C14: after silence for longer than the history window, a spectrum that
\* steps up to a level and holds it gives exactly one frame with
\* beatDetected = TRUE, the first frame of the spike
C14_OneBeatPerSpike ==
    /\ frameCount.loud = 0 => beatLog = <<>>
    /\ frameCount.loud = 1 => audioData.beatDetected /\ beatLog = <<now>>
    /\ frameCount.loud > 1 => ~audioData.beatDetected /\ Len(beatLog) = 1

\* the spike has been held for all its frames, the last of them 130 ms (more
\* than the cooldown) after the one before
C14_Witness ==
    /\ frameCount.silent = WarmupFrames
    /\ frameCount.loud = MaxSpikeFrames
    /\ Len(beatLog) = 1
    /\ now - beatLog[1] > 130
    /\ analyzer.prevSpectrum = <<1, 1>>

LevelKeys == {"bass", "lowMid", "mid", "high", "energy", "beatIntensity"}

\* C15: every frame analyze() returns has bass, lowMid, mid, high, energy and
\* beatIntensity within [0,1]; a frame returned with no source attached is
\* non-zero in every level and reports no beat
C15_FrameInUnit ==
    ~IsNull(audioData) =>
        /\ \A k \in LevelKeys : InUnit(audioData[k])
        /\ IsNull(analyser) =>
             /\ \A k \in LevelKeys \ {"beatIntensity"} : RLt(<<0, 1>>, audioData[k])
             /\ ~audioData.beatDetected
             /\ audioData.beatIntensity = <<0, 1>>


-----------------------------------------------------------------------------
(* OscillatorEngine: properties *)

\* an update has drawn in this step (alone, or inside animate)
UpdateRan == engine'.updates = engine.updates + 1

\* render has drawn in this step (alone, or inside animate)
RenderRan == engine'.op = "render" /\ engine'.initialized

\* C16: every update on an initialized engine reads the current state buffer
\* and writes the other one, leaves the buffer it read as it was, and flips
\* the current index; a render samples the current buffer, which is the one
\* the most recent update wrote, and does not change which buffer is current
C16_PingPong ==
    [][ /\ UpdateRan =>
            /\ engine'.draw.read = engine.currentBuffer
            /\ engine'.draw.write = 1 - engine.currentBuffer
            /\ engine'.draw.read # engine'.draw.write
            /\ engine'.currentBuffer = 1 - engine.currentBuffer
            /\ engine'.currentBuffer \in {0, 1}
            /\ engine'.contents[engine.currentBuffer + 1]
                 = engine.contents[engine.currentBuffer + 1]
        /\ RenderRan =>
            /\ engine'.screen.u_state = engine'.currentBuffer
            /\ ~UpdateRan => engine'.currentBuffer = engine.currentBuffer
            /\ ~IsNull(engine'.draw) => engine'.screen.u_state = engine'.draw.write
      ]_vars

\* two updates and then a render: the second update read buffer 1 and wrote
\* buffer 0, which the render sampled
C16_Witness ==
    /\ engine.op = "render" /\ engine.initialized
    /\ engine.updates = 2
    /\ engine.draw = [read |-> 1, write |-> 0, u_deltaTime |-> R(5, 100)]
    /\ engine.screen.u_state = 0
    /\ engine.currentBuffer = 0

\* C17: whatever deltaTime update is called with, the u_deltaTime given to
\* the update kernel is at most 0.05
C17_DeltaTimeClamped ==
    ~IsNull(engine.draw) => RLe(engine.draw.u_deltaTime, R(5, 100))

\* an update called with a deltaTime of 5 s has drawn with u_deltaTime 0.05
\* while the engine's clock advanced by the whole 5 s
C17_Witness ==
    /\ engine.op = "update" /\ engine.updates = 1
    /\ engine.time = R(5, 1)
    /\ engine.draw.u_deltaTime = R(5, 100)

FormatOrder == <<"RGBA32F", "RGBA16F", "RGBA8">>

\* the framebuffer creations init made for state buffer b, in order
CreationsFor(b) ==
    LET ForBuffer(a) == a.buffer = b
    IN SelectSeq(engine.attempts, ForBuffer)

\* the creations run down the formats from RGBA32F and stop at the first
\* that succeeds
HighestFirst(tried) ==
    /\ Len(tried) \in 1..3
    /\ \A i \in 1..Len(tried) : tried[i].format = FormatOrder[i]
    /\ \A i \in 1..(Len(tried) - 1) : ~tried[i].ok
    /\ tried[Len(tried)].ok \/ Len(tried) = 3

\* init threw only after an RGBA8 creation failed, and ended initialized
\* otherwise
ErrorOnlyAfterRGBA8 ==
    /\ engine.error = "Failed to create framebuffers" =>
         \E i \in 1..Len(engine.attempts) :
            engine.attempts[i].format = "RGBA8" /\ ~engine.attempts[i].ok
    /\ engine.error # "Failed to create framebuffers" => engine.initialized

\* C18: when init reaches the state buffers, each of the two is tried in
\* RGBA32F, then RGBA16F, then RGBA8, stopping at the first success; init
\* throws the framebuffer error only if an RGBA8 creation failed, and
\* otherwise the engine ends initialized
C18_FormatFallback ==
    (engine.op = "init" /\ engine.attempts # <<>>) =>
        /\ \A b \in {0, 1} : HighestFirst(CreationsFor(b))
        /\ ErrorOnlyAfterRGBA8

\* C19: init and setSeed are deterministic in the seed: a second engine given
\* the same seed string holds the same initial state-buffer contents, and,
\* given the same updates, the same contents after each of them
C19_SeedDeterminism ==
    engine.initialized => engine.contents = engine.twin

StateBufferObjects == BufferObjects(0) \cup BufferObjects(1)
ProgramObjects == {"updateProgram", "renderProgram"}

\* the place of an object in the order of release: state buffers, noise
\* texture, image texture, programs
ReleaseRank(name) ==
    IF name \in StateBufferObjects THEN 1
    ELSE IF name = "noiseTexture" THEN 2
    ELSE IF name \in ProgramObjects THEN 4
    ELSE 3

\* the objects the engine holds: its state buffers, noise texture, programs
\* and the image texture last attached through setImage
HeldObjects ==
    StateBufferObjects \cup {"noiseTexture"} \cup ProgramObjects
    \cup (IF engine.imageTexture # 0 THEN {ImageName(engine.imageTexture)} ELSE {})

\* C20: dispose releases both state buffers, then the noise texture, then
\* the image texture attached through setImage, then both programs, and
\* after it none of them is still allocated
C20_DisposeReleasesAll ==
    (engine.op = "dispose" /\ engine.gl) =>
        LET IsHeld(name) == name \in HeldObjects
            log == SelectSeq(engine.released, IsHeld)
        IN /\ \A i \in 1..Len(log) : \A j \in 1..Len(log) :
                 i < j => ReleaseRank(log[i]) <= ReleaseRank(log[j])
           /\ engine.allocated \cap HeldObjects = {}

\* C26: after a successful init each state texture is stored in the format
\* the fallback selected for its buffer, init's and setSeed's upload of the
\* initial state leaves that format as it is, and the two buffers have the
\* same format.
C26_FormatKept ==
    engine.initialized =>
      /\ \A i \in 1..2 : engine.storage[i] = engine.stateBuffers[i].format
      /\ engine.stateBuffers[1].format = engine.stateBuffers[2].format
      /\ engine.storage[1] = engine.storage[2]

\* C29: whenever an engine generates its noise field, at init and at each
\* regeneration in update, the field is that of the engine's own seed and noise
\* time, whatever other engines were constructed or reseeded meanwhile.
C29_NoiseOwnSeed ==
    [][(engine'.noise # engine.noise /\ ~IsNull(engine'.noise)) =>
          /\ engine'.noise.perm = stringToSeed(engine'.seed)
          /\ engine'.noise.time = engine'.noiseTime]_vars

\* C30: on an engine that is not initialized (init not yet run, init failed,
\* or dispose called) update leaves the engine time, the noise and its time,
\* both state textures and the current-buffer index as they are and issues no
\* draw, and render draws nothing.
C30_GuardedCalls ==
    [][~engine.initialized =>
         /\ engine'.op = "update" =>
              /\ engine'.time = engine.time
              /\ engine'.noiseTime = engine.noiseTime
              /\ engine'.noise = engine.noise
              /\ engine'.contents = engine.contents
              /\ engine'.currentBuffer = engine.currentBuffer
              /\ engine'.draw = engine.draw
              /\ engine'.lastAudio = engine.lastAudio
         /\ engine'.op = "render" => engine'.screen = engine.screen]_vars

\* update and then render called on an engine that had run and was disposed:
\* the time, the textures and the screen are those the last frame left
C30_Witness ==
    /\ ~engine.initialized
    /\ engine.released # <<>>
    /\ engine.op = "render"
    /\ engine.updates > 0
    /\ ~IsNull(engine.screen)
    /\ engine.time = R(16, 1000)

-----------------------------------------------------------------------------
(* Render shader and perceptual mapping: properties *)

\* energy contributions over [0,1] the drawn one is compared with
EnergyGrid == {R(k, 10) : k \in 0..10}

\* C21: for every effect of the render stage, with the sliders and the audio
\* features in [0,1], the base and the energy contribution are in [0,1] and the
\* effective strength base + energy * (1 - base) lies between base and 1,
\* equals base at energy 0 and 1 at energy 1, and grows strictly with the
\* energy contribution when base < 1.
C21_EnergyLayer ==
    frag.drawn =>
      \A k \in Effects :
        LET base == frag.base[k]
            energy == frag.energy[k]
            effective == frag.effective[k]
        IN /\ InUnit(base) /\ InUnit(energy)
           /\ RLe(base, effective) /\ RLe(effective, RInt(1))
           /\ energy = RInt(0) => effective = base
           /\ energy = RInt(1) => effective = RInt(1)
           /\ Effective(base, RInt(0)) = base
           /\ Effective(base, RInt(1)) = RInt(1)
           /\ RLt(base, RInt(1)) =>
                \A other \in EnergyGrid :
                  /\ RLt(energy, other) => RLt(effective, Effective(base, other))
                  /\ RLt(other, energy) => RLt(Effective(base, other), effective)

\* a draw where audio lifts the flow strength above its base and short of 1
C21_Witness ==
    /\ frag.drawn
    /\ RLt(RInt(0), frag.base.flow)
    /\ RLt(frag.base.flow, frag.effective.flow)
    /\ RLt(frag.effective.flow, RInt(1))

\* C22: the library's mapToPerceptualZone and the engine's copy are both
\* non-decreasing over [0,1], zone boundaries included, map 0 to 0 and 1 to 1,
\* and at x = 0.4 and x = 0.8 the formulas of the two adjoining zones agree
\* (on 0.2 and on 0.7).
C22_ZoneMonotonic ==
    zones.mapped =>
      /\ RLe(zones.lib[1], zones.lib[2])
      /\ RLe(zones.copy[1], zones.copy[2])
      /\ \A i \in 1..2 :
           /\ zones.x[i] = RInt(0) => zones.lib[i] = RInt(0) /\ zones.copy[i] = RInt(0)
           /\ zones.x[i] = RInt(1) => zones.lib[i] = RInt(1) /\ zones.copy[i] = RInt(1)
           /\ zones.x[i] = R(4, 10) =>
                /\ zones.lib[i] = R(2, 10) /\ zones.copy[i] = R(2, 10)
                /\ LibPerceptualZone(2, zones.x[i]) = R(2, 10)
                /\ PerceptualZone(2, zones.x[i]) = R(2, 10)
           /\ zones.x[i] = R(8, 10) =>
                /\ zones.lib[i] = R(7, 10) /\ zones.copy[i] = R(7, 10)
                /\ LibPerceptualZone(3, zones.x[i]) = R(7, 10)
                /\ PerceptualZone(3, zones.x[i]) = R(7, 10)

\* a pair of inputs on either side of the boundary at 0.8
C22_Witness ==
    /\ zones.mapped
    /\ zones.x[1] = R(8, 10)
    /\ RLt(zones.x[1], zones.x[2])
    /\ RLt(zones.copy[1], zones.copy[2])
    /\ RLt(zones.lib[1], zones.lib[2])

-----------------------------------------------------------------------------
(* Visualizer page: properties *)

\* a step of the mounted page that leaves the seed input and the sliders'
\* move count alone while the input does not decode: only Load takes it
FailedLoadStep ==
    /\ mounted
    /\ IsNull(decodeSeed(seedInput))
    /\ seedInput' = seedInput
    /\ moves' = moves

\* C23: Load on a seed input that decodeSeed rejects ends in the "Invalid seed"
\* report and leaves the visual parameters, the audio parameters and the stored
\* seed as they were; the report is the handler's last statement, so reaching
\* it means the handler ran to its end and nothing was thrown.
C23_MalformedLoad ==
    [][FailedLoadStep =>
         /\ lastToast' = "Invalid seed"
         /\ params' = params
         /\ audioParams' = audioParams
         /\ seed' = seed]_vars

\* a rejected Load after an accepted one: the parameters loaded earlier and the
\* seed stored with them are still there
C23_Witness ==
    /\ mounted
    /\ lastToast = "Invalid seed"
    /\ IsNull(decodeSeed(seedInput))
    /\ params # DEFAULT_PARAMS
    /\ ~IsNull(decodeSeed(seed))
    /\ decodeSeed(seed).params = params

\* C27: once the page has mounted, the stored session seed satisfies
\* isValidSeed and decodes, whatever was typed, generated, loaded or reset; and
\* while the last report is that of a successful Load, the stored seed decodes to
\* the parameters that Load set.
C27_StoredSeedValid ==
    mounted =>
      /\ isValidSeed(seed)
      /\ ~IsNull(decodeSeed(seed))
      /\ lastToast = "Seed loaded" =>
           /\ decodeSeed(seed).params = params
           /\ decodeSeed(seed).audioParams = audioParams

-----------------------------------------------------------------------------
(* TrackPlayer: properties *)

\* position of a call in the cleanup (0 when the cleanup did not make it)
CleanupIndex(call) ==
    IF \E i \in 1..Len(player.cleanup) : player.cleanup[i] = call
    THEN CHOOSE i \in 1..Len(player.cleanup) : player.cleanup[i] = call
    ELSE 0

\* C24: at teardown the cleanup cancels the update loop before it disposes the
\* effects chain; dispose stops both LFO oscillators; once the chain is disposed
\* no animation frame is left to run and update() is never called on it again.
C24_TeardownStopsLoop ==
    /\ CleanupIndex("dispose") > 0 =>
         /\ CleanupIndex("cancelAnimationFrame") > 0
         /\ CleanupIndex("cancelAnimationFrame") < CleanupIndex("dispose")
    /\ ~IsNull(player.effectsChainRef) =>
         /\ player.effectsChainRef.disposed <=> player.phase = "torn down"
         /\ player.effectsChainRef.disposed =>
              /\ player.effectsChainRef.filterLfo = "stopped"
              /\ player.effectsChainRef.breakLfo = "stopped"
              /\ player.frames = {}
              /\ player.effectsChainRef.lateUpdates = 0

\* a player torn down after its loop had called update() from a frame, with a
\* play() promise still to resolve
C24_Witness ==
    /\ player.phase = "torn down"
    /\ ~IsNull(player.effectsChainRef)
    /\ player.effectsChainRef.disposed
    /\ player.effectsChainRef.updateCalls >= 2
    /\ player.cleanup = <<"cancelAnimationFrame", "dispose", "close">>

-----------------------------------------------------------------------------
(* WebGLCanvas: properties *)

\* C28: whatever the order of init completions, seed changes and teardown, at
\* most one animation frame is pending at any time, and once the component is
\* torn down no frame is pending, requested or run.
C28_SingleLoop ==
    /\ Cardinality(canvasLoop.frames) <= 1
    /\ canvasLoop.phase = "torn down" =>
         /\ canvasLoop.frames = {}
         /\ canvasLoop.lateRequests = 0
         /\ canvasLoop.lateRuns = 0

=============================================================================
